---------------------------- MODULE Spec2Model ----------------------------
(***************************************************************************)
(* A model of the time-based segmentation and re-timing engine of vibecut: *)
(*                                                                         *)
(*   - the constrained split-point selector                                *)
(*       skills/chunk-process/smart_chunk.py                               *)
(*   - the pause-based segmenter                                           *)
(*       skills/talking-head/sentence_split.py                             *)
(*   - the cut-list resolver                                               *)
(*       skills/talking-head/precision_trim.py                             *)
(*   - the timestamp remapper and the phrase grouper                       *)
(*       skills/talking-head/generate_captions.py                          *)
(*   - the parallel workers that transcribe chunks and convert clips       *)
(*       skills/chunk-process/process_chunks.py                            *)
(*       skills/talking-head/lowres_convert.py                             *)
(*                                                                         *)
(* Times are integers counted in ticks.  The selector counts in ticks of   *)
(* 1/SecTicks second, so that int() of a float is a truncation to a whole  *)
(* number of seconds.  The resolver counts in ticks of 25 ms, so that the  *)
(* code's 0.1 s and 0.05 s tolerances are 4 and 2 ticks and a gap shorter  *)
(* than 50 ms exists.  Float rounding is not modelled.                     *)
(*                                                                         *)
(* Each program has a specification of its own (SpecChunk, SpecClips,      *)
(* SpecCuts, SpecPhrases); the variables of the other programs stay at     *)
(* their idle values.  SpecTrim is the trimming pipeline from the answer   *)
(* of the decision service to the remapped words, SpecRemap the remapper   *)
(* on any transcript and any kept-segment file.                            *)
(* SpecAnyThresholds is the selector under any ordering of its thresholds, *)
(* SpecBoundaries the boundary detector alone, SpecLookahead the segmenter *)
(* on longer streams, SpecSegments the remapper on touching segments and   *)
(* zero-length words, SpecProcess and SpecLowres the two worker pools.     *)
(***************************************************************************)
EXTENDS Integers, Sequences, FiniteSets

VARIABLES
    \* find_split_points / split_video_at_points (smart_chunk.py)
    energy_data, silence_gaps, total_duration, target_chunk_sec,
    min_chunk_sec, max_chunk_sec, search_window_sec,
    split_points, current_pos, iter, chunks, pc_chunk,
    \* find_sentence_boundaries / group_into_clips (sentence_split.py)
    words, min_pause_ms, punctuation_pause_ms, boundaries, max_duration_sec,
    min_duration_sec, target_duration_sec, clips, clip_id, current_idx,
    pc_clip,
    \* identify_cuts_with_gemini / merge_overlapping_cuts /
    \* generate_keep_segments (precision_trim.py)
    transcript, response_cuts, min_keep_duration, validated_cuts,
    merged_cuts, raw_keeps, keeps, dropped_count, dropped_duration, pc_cut,
    \* apply_precise_cuts (precision_trim.py) and map_timestamps_to_trimmed
    \* (generate_captions.py)
    result, ffmpeg_runs, stdout, mapped_words,
    \* group_words_into_phrases (generate_captions.py)
    max_words_per_phrase, max_chars_per_phrase, max_duration_ms,
    min_pause_for_break_ms, phrases, current_phrase_words,
    current_phrase_start, word_i, pc_phrase,
    \* generate_captions_for_trimmed (generate_captions.py)
    phrases_horizontal, phrases_vertical, pc_caption,
    \* main (process_chunks.py)
    chunk_files, sequential, chunk_tasks, futures, results, completed, index,
    pc_main,
    \* create_lowres_clips (lowres_convert.py)
    clip_files, parallel, lowres_futures, lowres_results, output_data,
    pc_lowres

chunkIn  == <<energy_data, silence_gaps, total_duration, target_chunk_sec,
              min_chunk_sec, max_chunk_sec, search_window_sec>>
chunkVars == <<chunkIn, split_points, current_pos, iter, chunks, pc_chunk>>

clipIn   == <<words, min_pause_ms, punctuation_pause_ms, max_duration_sec,
              min_duration_sec, target_duration_sec>>
clipVars == <<clipIn, boundaries, clips, clip_id, current_idx, pc_clip>>

cutIn    == <<transcript, response_cuts, min_keep_duration>>
applyVars == <<result, ffmpeg_runs, stdout, mapped_words>>
cutVars  == <<cutIn, validated_cuts, merged_cuts, raw_keeps, keeps,
              dropped_count, dropped_duration, pc_cut, applyVars>>

phraseIn == <<max_words_per_phrase, max_chars_per_phrase, max_duration_ms,
              min_pause_for_break_ms>>
phraseLocals == <<phrases, current_phrase_words, current_phrase_start,
                  word_i, pc_phrase>>
captionVars == <<phrases_horizontal, phrases_vertical, pc_caption>>
phraseVars == <<phraseIn, phraseLocals, captionVars>>

processIn == <<chunk_files, sequential>>
processVars == <<processIn, chunk_tasks, futures, results, completed, index,
                 pc_main>>

lowresIn == <<clip_files, parallel>>
lowresVars == <<lowresIn, lowres_futures, lowres_results, output_data,
                pc_lowres>>

workerVars == <<processVars, lowresVars>>

notChunk == <<clipVars, cutVars, phraseVars, workerVars>>
notClip  == <<chunkVars, cutVars, phraseVars, workerVars>>
notCut   == <<chunkVars, clipVars, phraseVars, workerVars>>
notPhrase == <<chunkVars, clipVars, cutVars, workerVars>>
notProcess == <<chunkVars, clipVars, cutVars, phraseVars, lowresVars>>
notLowres == <<chunkVars, clipVars, cutVars, phraseVars, processVars>>

vars == <<chunkVars, clipVars, cutVars, phraseVars, workerVars>>

-----------------------------------------------------------------------------
(* Generic helpers *)

Min(a, b) == IF a <= b THEN a ELSE b
Max(a, b) == IF a >= b THEN a ELSE b
Abs(a) == IF a >= 0 THEN a ELSE 0 - a

-----------------------------------------------------------------------------
(* Bounds of the model *)

\* Ticks per second in the selector's model (2: half-second resolution).
SecTicks == 2
\* Longest timeline given to find_split_points, in ticks.
MaxTotal == 8
\* Largest target / min / max chunk duration and search window, in ticks.
MaxDur == 3
\* Most silence gaps in one input.
MaxGaps == 2
\* Spacing of the energy samples, in ticks (window_sec of analyze_audio_energy).
EnergyStep == 3
\* Most words in a token stream given to the segmenter.
MaxWords == 4
\* Milliseconds per tick in the segmenter's model.
TickMs == 100
\* Most cuts in one response of the semantic decision service.
MaxCuts == 3

-----------------------------------------------------------------------------
(* smart_chunk.py : inputs *)

\* confidence = min(1.0, duration / 1.0), in units of 1/SecTicks.
Confidence(dur) == Min(SecTicks, dur)

\* One silence gap as detect_silence_gaps reports it: (midpoint, duration,
\* confidence); the midpoint of a silence lies inside the timeline.
GapsOf(total) ==
    {[t |-> t, dur |-> d, conf |-> Confidence(d)] : t \in 1..(total - 1), d \in 1..2}

\* The gap lists detect_silence_gaps can return: chronological.
GapLists(total) ==
    {s \in UNION {[1..n -> GapsOf(total)] : n \in 0..MaxGaps} :
        \A i \in 1..(Len(s) - 1) : s[i].t < s[i + 1].t}

\* The energy lists analyze_audio_energy can return: none (no RMS line
\* parsed), or one sample per window, at 0, window, 2*window, ...
EnergyCount(total) == (total + EnergyStep - 1) \div EnergyStep
EnergyLists(total) ==
    {<<>>} \cup
    {[i \in 1..EnergyCount(total) |-> [t |-> (i - 1) * EnergyStep, e |-> lv[i]]] :
        lv \in [1..EnergyCount(total) -> {1, 2}]}

-----------------------------------------------------------------------------
(* smart_chunk.py : find_split_points *)

\* int(x) of a non-negative float: whole seconds.
IntSec(x) == x \div SecTicks

\* list(range(0, int(total_duration), int(target_chunk_sec))), in ticks;
\* defined for a positive step only.
RangeFallback(total, target) ==
    LET stop == IntSec(total)
        step == IntSec(target)
        n    == IF stop <= 0 THEN 0 ELSE (stop + step - 1) \div step
    IN  [k \in 1..n |-> (k - 1) * step * SecTicks]

\* SearchStart without the minimum chunk length: the window may open at or
\* before the current position.
SearchStartAroundTarget(cur, minDur, target, window) ==
    (cur + target) - window

SearchStart(cur, minDur, target, window) ==
    Max(cur + minDur, (cur + target) - window)

SearchEnd(cur, total, target, maxDur, window) ==
    Min(total, Min((cur + target) + window, cur + maxDur))

InWindow(t, lo, hi) == lo <= t /\ t <= hi

\* conf - abs(t - target_pos) / search_window_sec * 0.3, multiplied by the
\* positive constant 10 * search_window_sec * SecTicks.
Score(g, targetPos, window) ==
    g.conf * 10 * window - 3 * SecTicks * Abs(g.t - targetPos)

\* max(scored, key=...)[0]: the first element of the list with the highest
\* score.
BestGap(cands, targetPos, window) ==
    LET i == CHOOSE i \in 1..Len(cands) :
                 /\ \A j \in 1..Len(cands) :
                        Score(cands[j], targetPos, window)
                            <= Score(cands[i], targetPos, window)
                 /\ \A j \in 1..(i - 1) :
                        Score(cands[j], targetPos, window)
                            < Score(cands[i], targetPos, window)
    IN  cands[i].t

\* min(energy_candidates, key=...)[0]: the first element of the list with
\* the lowest level.
BestEnergy(cands) ==
    LET i == CHOOSE i \in 1..Len(cands) :
                 /\ \A j \in 1..Len(cands) : cands[i].e <= cands[j].e
                 /\ \A j \in 1..(i - 1) : cands[i].e < cands[j].e
    IN  cands[i].t

\* ChoosePoint with the two priorities exchanged: the quietest energy
\* sample wins over a silence gap.
ChoosePointEnergyFirst(gaps, energy, lo, hi, targetPos, window) ==
    LET gap_candidates == SelectSeq(gaps, LAMBDA g : InWindow(g.t, lo, hi))
        energy_candidates == SelectSeq(energy, LAMBDA s : InWindow(s.t, lo, hi))
    IN  IF energy_candidates # <<>>
        THEN [point |-> BestEnergy(energy_candidates), from |-> "energy"]
        ELSE IF gap_candidates # <<>>
        THEN [point |-> BestGap(gap_candidates, targetPos, window), from |-> "silence"]
        ELSE [point |-> targetPos, from |-> "target"]

\* One pass of the loop body: the point chosen, and where it came from.
ChoosePoint(gaps, energy, lo, hi, targetPos, window) ==
    LET gap_candidates == SelectSeq(gaps, LAMBDA g : InWindow(g.t, lo, hi))
        energy_candidates == SelectSeq(energy, LAMBDA s : InWindow(s.t, lo, hi))
    IN  IF gap_candidates # <<>>
        THEN [point |-> BestGap(gap_candidates, targetPos, window), from |-> "silence"]
        ELSE IF energy_candidates # <<>>
        THEN [point |-> BestEnergy(energy_candidates), from |-> "energy"]
        ELSE [point |-> targetPos, from |-> "target"]

NoIter == [n |-> 0]

\* apply_precise_cuts has not returned.
NoResult == [none |-> TRUE]

\* The other programs, not running.
IdleClip ==
    /\ words = <<>> /\ boundaries = <<>>
    /\ min_pause_ms = 0 /\ punctuation_pause_ms = 0
    /\ max_duration_sec = 0 /\ min_duration_sec = 0 /\ target_duration_sec = 0
    /\ clips = <<>> /\ clip_id = 0 /\ current_idx = 0 /\ pc_clip = "idle"

IdleCut ==
    /\ transcript = [words |-> <<>>, duration_sec |-> 0]
    /\ response_cuts = <<>> /\ min_keep_duration = 0
    /\ validated_cuts = <<>> /\ merged_cuts = <<>> /\ raw_keeps = <<>>
    /\ keeps = <<>> /\ dropped_count = 0 /\ dropped_duration = 0
    /\ pc_cut = "idle"
    /\ result = NoResult /\ ffmpeg_runs = 0 /\ stdout = <<>>
    /\ mapped_words = <<>>

\* Nothing written yet.
NoIndex == [none |-> TRUE]

IdleProcess ==
    /\ chunk_files = <<>> /\ sequential = FALSE /\ chunk_tasks = <<>>
    /\ futures = {} /\ results = <<>> /\ completed = <<>>
    /\ index = NoIndex /\ pc_main = "idle"

IdleLowres ==
    /\ clip_files = <<>> /\ parallel = 0 /\ lowres_futures = {}
    /\ lowres_results = <<>> /\ output_data = NoIndex /\ pc_lowres = "idle"

IdlePhrase ==
    /\ max_words_per_phrase = 0 /\ max_chars_per_phrase = 0
    /\ max_duration_ms = 0 /\ min_pause_for_break_ms = 0
    /\ phrases = <<>> /\ current_phrase_words = <<>>
    /\ current_phrase_start = "None" /\ word_i = 0 /\ pc_phrase = "idle"
    /\ phrases_horizontal = <<>> /\ phrases_vertical = <<>>
    /\ pc_caption = "idle"

IdleChunk ==
    /\ energy_data = <<>> /\ silence_gaps = <<>> /\ total_duration = 0
    /\ target_chunk_sec = 0 /\ min_chunk_sec = 0 /\ max_chunk_sec = 0
    /\ search_window_sec = 0 /\ split_points = <<>> /\ current_pos = 0
    /\ iter = NoIter /\ chunks = <<>> /\ pc_chunk = "idle"

InitChunk ==
    /\ total_duration \in 1..MaxTotal
    /\ min_chunk_sec \in 1..MaxDur
    /\ target_chunk_sec \in min_chunk_sec..MaxDur
    /\ max_chunk_sec \in target_chunk_sec..MaxDur
    /\ search_window_sec \in 1..2
    /\ silence_gaps \in GapLists(total_duration)
    /\ energy_data \in EnergyLists(total_duration)
    /\ split_points = <<>>
    /\ current_pos = 0
    /\ iter = NoIter
    /\ chunks = <<>>
    /\ pc_chunk = "entry"
    /\ IdleClip /\ IdleCut /\ IdlePhrase
    /\ IdleProcess /\ IdleLowres

\* Lines 110-112: no candidate of either kind, fixed intervals.
Fallback ==
    /\ pc_chunk = "entry"
    /\ energy_data = <<>> /\ silence_gaps = <<>>
    /\ IF IntSec(target_chunk_sec) = 0
       THEN \* range() arg 3 must not be zero: ValueError
            /\ pc_chunk' = "error"
            /\ split_points' = split_points
       ELSE /\ pc_chunk' = "returned"
            /\ split_points' = RangeFallback(total_duration, target_chunk_sec)
    /\ UNCHANGED <<chunkIn, current_pos, iter, chunks, notChunk>>

\* Lines 114-115.
EnterLoop ==
    /\ pc_chunk = "entry"
    /\ ~(energy_data = <<>> /\ silence_gaps = <<>>)
    /\ split_points' = <<0>>
    /\ current_pos' = 0
    /\ pc_chunk' = "loop"
    /\ UNCHANGED <<chunkIn, iter, chunks, notChunk>>

\* Lines 117-157: one iteration of the while loop.
LoopIter ==
    /\ pc_chunk = "loop"
    /\ current_pos + min_chunk_sec < total_duration
    /\ LET target_pos == current_pos + target_chunk_sec
           search_start == SearchStart(current_pos, min_chunk_sec,
                                       target_chunk_sec, search_window_sec)
           search_end == SearchEnd(current_pos, total_duration, target_chunk_sec,
                                   max_chunk_sec, search_window_sec)
           best == ChoosePoint(silence_gaps, energy_data, search_start,
                               search_end, target_pos, search_window_sec)
       IN  /\ split_points' = Append(split_points, best.point)
           /\ current_pos' = best.point
           /\ iter' = [n |-> iter.n + 1, from_pos |-> current_pos,
                       target_pos |-> target_pos, search_start |-> search_start,
                       search_end |-> search_end, best_point |-> best.point,
                       from |-> best.from]
    /\ UNCHANGED <<chunkIn, chunks, pc_chunk, notChunk>>

\* Line 159: the loop condition fails.
Return ==
    /\ pc_chunk = "loop"
    /\ ~(current_pos + min_chunk_sec < total_duration)
    /\ pc_chunk' = "returned"
    /\ UNCHANGED <<chunkIn, split_points, current_pos, iter, chunks, notChunk>>

\* split_video_at_points, lines 174-205, every chunk file written by the
\* media tool.
ChunksOf(points, total) ==
    [i \in 1..Len(points) |->
        LET start == points[i]
            end == IF i + 1 <= Len(points) THEN points[i + 1] ELSE total
        IN  [chunk_num |-> i - 1, start |-> start, end |-> end,
             duration |-> end - start]]

SplitVideo ==
    /\ pc_chunk = "returned"
    /\ chunks' = ChunksOf(split_points, total_duration)
    /\ pc_chunk' = "split"
    /\ UNCHANGED <<chunkIn, split_points, current_pos, iter, notChunk>>

NextChunk == Fallback \/ EnterLoop \/ LoopIter \/ Return \/ SplitVideo

SpecChunk == InitChunk /\ [][NextChunk]_vars

\* find_split_points called with positive thresholds in any order: the
\* function does not compare min_chunk_sec, target_chunk_sec and
\* max_chunk_sec.  Each threshold is the shortest or the longest length.
InitAnyThresholds ==
    /\ total_duration \in 1..MaxTotal
    /\ min_chunk_sec \in {1, MaxDur}
    /\ target_chunk_sec \in {1, MaxDur}
    /\ max_chunk_sec \in {1, MaxDur}
    /\ search_window_sec \in 1..2
    /\ silence_gaps \in GapLists(total_duration)
    /\ energy_data \in EnergyLists(total_duration)
    /\ split_points = <<>>
    /\ current_pos = 0
    /\ iter = NoIter
    /\ chunks = <<>>
    /\ pc_chunk = "entry"
    /\ IdleClip /\ IdleCut /\ IdlePhrase
    /\ IdleProcess /\ IdleLowres

\* The function runs to its end: a step that can be taken is taken.
SpecAnyThresholds ==
    InitAnyThresholds /\ [][NextChunk]_vars /\ WF_vars(NextChunk)

-----------------------------------------------------------------------------
(* Claims about find_split_points and split_video_at_points *)

Returned == pc_chunk \in {"returned", "split"}

\* C1: with 0 < min_chunk_sec <= target_chunk_sec <= max_chunk_sec, every two
\* consecutive returned split points differ by at least min_chunk_sec and at
\* most max_chunk_sec.  The fixed-interval fallback steps by
\* int(target_chunk_sec), which is below min_chunk_sec for a fractional
\* target equal to the minimum.
C1_SpacingWithinMinMax ==
    Returned =>
        \A i \in 1..(Len(split_points) - 1) :
            /\ split_points[i + 1] - split_points[i] >= min_chunk_sec
            /\ split_points[i + 1] - split_points[i] <= max_chunk_sec

\* C2: for total_duration > 0 the returned list is non-empty, strictly
\* increasing, starts at 0 and stays below total_duration, on both paths; the
\* chunks built from it start at 0, are contiguous, end at total_duration and
\* have positive durations.
C2_SplitsInsideTimeline ==
    /\ Returned =>
          /\ Len(split_points) > 0
          /\ split_points[1] = 0
          /\ \A i \in 1..(Len(split_points) - 1) :
                split_points[i] < split_points[i + 1]
          /\ \A i \in 1..Len(split_points) : split_points[i] < total_duration
    /\ pc_chunk = "split" =>
          /\ chunks[1].start = 0
          /\ \A i \in 1..(Len(chunks) - 1) : chunks[i].end = chunks[i + 1].start
          /\ chunks[Len(chunks)].end = total_duration
          /\ \A i \in 1..Len(chunks) : chunks[i].duration > 0

\* C3: in each iteration, if a silence gap lies in the search window
\* [max(currentPos+minDur, targetPos-searchWindow),
\*  min(totalDuration, targetPos+searchWindow, currentPos+maxDur)] the chosen
\* point is an in-window gap maximising confidence - 0.3*|t-targetPos|/window;
\* otherwise, if an energy sample lies in the window, an in-window sample of
\* the lowest level; targetPos only when neither exists.
C3_SelectionPriority ==
    iter.n > 0 =>
        LET cur == iter.from_pos
            tp  == cur + target_chunk_sec
            lo  == Max(cur + min_chunk_sec, tp - search_window_sec)
            hi  == Min(total_duration,
                       Min(tp + search_window_sec, cur + max_chunk_sec))
            inG == {i \in 1..Len(silence_gaps) :
                        lo <= silence_gaps[i].t /\ silence_gaps[i].t <= hi}
            inE == {i \in 1..Len(energy_data) :
                        lo <= energy_data[i].t /\ energy_data[i].t <= hi}
            \* the score, times 10 * search_window_sec * SecTicks
            sc(i) == 10 * search_window_sec * silence_gaps[i].conf
                       - 3 * SecTicks * Abs(silence_gaps[i].t - tp)
        IN  /\ current_pos = iter.best_point
            /\ split_points[Len(split_points)] = iter.best_point
            /\ IF inG # {}
               THEN \E i \in inG :
                        /\ iter.best_point = silence_gaps[i].t
                        /\ \A j \in inG : sc(j) <= sc(i)
               ELSE IF inE # {}
               THEN \E i \in inE :
                        /\ iter.best_point = energy_data[i].t
                        /\ \A j \in inE : energy_data[i].e <= energy_data[j].e
               ELSE iter.best_point = tp

\* C3's case: a gap in the window is chosen although it is not the target
\* position, while an energy sample in the window was available too.
C3_Witness ==
    /\ iter.n > 0
    /\ iter.from = "silence"
    /\ iter.best_point # iter.target_pos
    /\ \E i \in 1..Len(energy_data) :
          InWindow(energy_data[i].t, iter.search_start, iter.search_end)
    /\ \E i, j \in 1..Len(silence_gaps) :
          /\ i # j
          /\ InWindow(silence_gaps[i].t, iter.search_start, iter.search_end)
          /\ InWindow(silence_gaps[j].t, iter.search_start, iter.search_end)

-----------------------------------------------------------------------------
(* sentence_split.py : inputs *)

\* A word's text is its sequence of characters.
WordTexts == {<<"a">>, <<"b", ".">>}
\* Silence before a word and the word's own length, in ticks.
WordGaps == {0, 3, 5}
WordDurs == {2, 7}

\* The token stream the alignment service delivers for a list of (gap, dur,
\* text) triples: ascending, non-overlapping; pause_before_ms as
\* mlx_transcribe computes it.
RECURSIVE BuildWords(_, _)
BuildWords(shape, from) ==
    IF shape = <<>> THEN <<>>
    ELSE LET h == Head(shape)
             w == [text |-> h.text, start |-> from + h.gap,
                   end |-> from + h.gap + h.dur,
                   pause_before_ms |-> h.gap * TickMs]
         IN  <<w>> \o BuildWords(Tail(shape), w.end)

\* pause_before_ms of the first word is 0 (mlx_transcribe.py line 63).
FirstPauseZero(ws) ==
    [i \in 1..Len(ws) |-> IF i = 1 THEN [ws[i] EXCEPT !.pause_before_ms = 0]
                          ELSE ws[i]]

\* Speech starts at 0 or after a silence.
FirstGaps == {0, 3}

WordShapes(n) ==
    {sh \in [1..n -> [gap : WordGaps, dur : WordDurs, text : WordTexts]] :
        sh[1].gap \in FirstGaps}

WordStreams ==
    {FirstPauseZero(BuildWords(sh, 0)) : sh \in UNION {WordShapes(n) : n \in 1..MaxWords}}

-----------------------------------------------------------------------------
(* sentence_split.py : find_sentence_boundaries *)

\* The characters of sentence_enders this model's texts can hold.
sentence_enders == {".", "!", "?"}

whitespace == {" "}

\* str.strip().
RECURSIVE Strip(_)
Strip(text) ==
    IF text = <<>> THEN <<>>
    ELSE IF Head(text) \in whitespace THEN Strip(Tail(text))
    ELSE IF text[Len(text)] \in whitespace
         THEN Strip(SubSeq(text, 1, Len(text) - 1))
    ELSE text

\* Lines 52-53: the stripped text is not empty and its last character is a
\* sentence ender.
EndsWithPunct(text) ==
    LET prev_text == Strip(text)
    IN  prev_text # <<>> /\ prev_text[Len(prev_text)] \in sentence_enders

\* word.get("pause_before_ms", 0).
PauseOf(word) ==
    IF "pause_before_ms" \in DOMAIN word THEN word.pause_before_ms ELSE 0

\* Word i of a Python list (indices from 0).
At(ws, i) == ws[i + 1]

\* IsBoundary without the punctuation rule: only a long pause starts a
\* sentence.
IsBoundaryLongPauseOnly(ws, i, minPause, punctPause) ==
    PauseOf(At(ws, i)) >= minPause

\* Lines 58-61.
IsBoundary(ws, i, minPause, punctPause) ==
    \/ PauseOf(At(ws, i)) >= minPause
    \/ EndsWithPunct(At(ws, i - 1).text) /\ PauseOf(At(ws, i)) >= punctPause

\* Lines 38-63: the ascending list of the indices where a sentence starts.
RECURSIVE BoundariesFrom(_, _, _, _)
BoundariesFrom(ws, i, minPause, punctPause) ==
    IF i >= Len(ws) THEN <<>>
    ELSE (IF IsBoundary(ws, i, minPause, punctPause) THEN <<i>> ELSE <<>>)
             \o BoundariesFrom(ws, i + 1, minPause, punctPause)

find_sentence_boundaries(ws, minPause, punctPause) ==
    IF ws = <<>> THEN <<>> ELSE <<0>> \o BoundariesFrom(ws, 1, minPause, punctPause)

-----------------------------------------------------------------------------
(* sentence_split.py : group_into_clips *)

\* Lines 93-99: artificial boundaries at target intervals.
RECURSIVE ArtificialFrom(_, _, _, _)
ArtificialFrom(ws, idx, current_time, target) ==
    IF idx >= Len(ws) THEN <<>>
    ELSE IF At(ws, idx).start - current_time >= target
         THEN <<idx>> \o ArtificialFrom(ws, idx + 1, At(ws, idx).start, target)
         ELSE ArtificialFrom(ws, idx + 1, current_time, target)

EffectiveBoundaries(ws, bs, target) ==
    IF Len(bs) <= 1 THEN <<0>> \o ArtificialFrom(ws, 1, At(ws, 0).start, target)
    ELSE bs

InList(x, list) == \E k \in 1..Len(list) : list[k] = x

\* Line 137, with the wrong bound: any boundary within reach is taken.
ExtendAlways(boundary_end_sec, start_sec, maxDur) == TRUE

\* Line 137: the extension to a boundary must not exceed max_duration_sec.
ExtendOk(boundary_end_sec, start_sec, maxDur) ==
    boundary_end_sec - start_sec <= maxDur

\* Lines 138-139, forgetting to move best_end_sec with best_end_idx.
ExtendedEndStale(ws, b, word_end) == word_end

\* Lines 136, 139: the end time of a clip extended to boundary b.
ExtendedEnd(ws, b, word_end) == At(ws, b - 1).end

\* Lookahead without the 5-word window: the first boundary after idx
\* decides, however far.
LookaheadUnlimited(ws, bs, idx, start_sec, maxDur, word_end) ==
    LET near == SelectSeq(bs, LAMBDA b : b > idx)
    IN  IF near # <<>> /\ ExtendOk(At(ws, near[1] - 1).end, start_sec, maxDur)
        THEN [idx |-> near[1] - 1, sec |-> ExtendedEnd(ws, near[1], word_end)]
        ELSE [idx |-> idx, sec |-> word_end]

\* Lines 133-140: the first boundary of the list within the next 5 words
\* decides; the clip ends before it when that fits.
Lookahead(ws, bs, idx, start_sec, maxDur, word_end) ==
    LET near == SelectSeq(bs, LAMBDA b : b > idx /\ b <= idx + 5)
    IN  IF near # <<>> /\ ExtendOk(At(ws, near[1] - 1).end, start_sec, maxDur)
        THEN [idx |-> near[1] - 1, sec |-> ExtendedEnd(ws, near[1], word_end)]
        ELSE [idx |-> idx, sec |-> word_end]

\* Lines 115-141: the for loop from idx on, best being the end found so far.
RECURSIVE ScanEnd(_, _, _, _, _, _, _)
ScanEnd(ws, bs, idx, best, start_sec, maxDur, target) ==
    IF idx >= Len(ws) THEN best
    ELSE LET word_end == At(ws, idx).end
             duration == word_end - start_sec
         IN  IF duration > maxDur THEN best
             ELSE IF duration >= target
             THEN IF InList(idx + 1, bs) \/ idx + 1 >= Len(ws)
                  THEN [idx |-> idx, sec |-> word_end]
                  ELSE Lookahead(ws, bs, idx, start_sec, maxDur, word_end)
             ELSE ScanEnd(ws, bs, idx + 1, [idx |-> idx, sec |-> word_end],
                          start_sec, maxDur, target)

\* " ".join(w["text"] for w in clip_words)
RECURSIVE JoinTexts(_)
JoinTexts(ws) ==
    IF ws = <<>> THEN <<>>
    ELSE IF Len(ws) = 1 THEN ws[1].text
    ELSE ws[1].text \o <<" ">> \o JoinTexts(Tail(ws))

\* Line 159, without the step past the clip's last word.
NextIdxStuck(best_end_idx) == best_end_idx

\* Line 159.
NextIdx(best_end_idx) == best_end_idx + 1

InitClips ==
    /\ words \in WordStreams
    /\ min_pause_ms = 500
    /\ punctuation_pause_ms = 300
    /\ min_duration_sec = 3
    /\ target_duration_sec = 3
    /\ max_duration_sec \in {4, 6}
    /\ boundaries = <<>>
    /\ clips = <<>>
    /\ clip_id = 0
    /\ current_idx = 0
    /\ pc_clip = "start"
    /\ IdleChunk /\ IdleCut /\ IdlePhrase
    /\ IdleProcess /\ IdleLowres

\* split_by_sentences line 305, and group_into_clips lines 89-103.
FindBoundaries ==
    /\ pc_clip = "start"
    /\ boundaries' = EffectiveBoundaries(
                        words,
                        find_sentence_boundaries(words, min_pause_ms,
                                                 punctuation_pause_ms),
                        target_duration_sec)
    /\ clip_id' = 1
    /\ current_idx' = 0
    /\ pc_clip' = "loop"
    /\ UNCHANGED <<clipIn, clips, notClip>>

\* Lines 105-159: one iteration of the while loop, one clip.
ClipIter ==
    /\ pc_clip = "loop"
    /\ current_idx < Len(words)
    /\ LET start_idx == current_idx
           start_sec == At(words, start_idx).start
           best == ScanEnd(words, boundaries, start_idx + 1,
                           [idx |-> start_idx, sec |-> At(words, start_idx).end],
                           start_sec, max_duration_sec, target_duration_sec)
           clip_words == SubSeq(words, start_idx + 1, best.idx + 1)
       IN  /\ clips' = Append(clips,
                  [clip_id |-> clip_id, start_idx |-> start_idx,
                   end_idx |-> best.idx, start_sec |-> start_sec,
                   end_sec |-> best.sec, duration_sec |-> best.sec - start_sec,
                   text |-> JoinTexts(clip_words),
                   word_count |-> Len(clip_words)])
           /\ clip_id' = clip_id + 1
           /\ current_idx' = NextIdx(best.idx)
    /\ UNCHANGED <<clipIn, boundaries, pc_clip, notClip>>

\* Line 161.
ReturnClips ==
    /\ pc_clip = "loop"
    /\ ~(current_idx < Len(words))
    /\ pc_clip' = "returned"
    /\ UNCHANGED <<clipIn, boundaries, clips, clip_id, current_idx, notClip>>

NextClips == FindBoundaries \/ ClipIter \/ ReturnClips

SpecClips == InitClips /\ [][NextClips]_vars

\* group_into_clips on longer streams of short words, where a boundary can
\* lie more than 5 words ahead: a word after a gap of 5 ticks starts a
\* sentence.
LookaheadWordCounts == 6..8
LookaheadGaps == {0, 5}

LookaheadShapes(n) ==
    {sh \in [1..n -> [gap : LookaheadGaps, dur : {1}, text : {<<"a">>}]] :
        sh[1].gap = 0}

LookaheadStreams ==
    {FirstPauseZero(BuildWords(sh, 0)) :
        sh \in UNION {LookaheadShapes(n) : n \in LookaheadWordCounts}}

InitLookahead ==
    /\ words \in LookaheadStreams
    /\ min_pause_ms = 500
    /\ punctuation_pause_ms = 300
    /\ min_duration_sec = 1
    /\ target_duration_sec = 2
    /\ max_duration_sec \in {4, 12}
    /\ boundaries = <<>>
    /\ clips = <<>>
    /\ clip_id = 0
    /\ current_idx = 0
    /\ pc_clip = "start"
    /\ IdleChunk /\ IdleCut /\ IdlePhrase
    /\ IdleProcess /\ IdleLowres

SpecLookahead == InitLookahead /\ [][NextClips]_vars

\* find_sentence_boundaries called on its own, on any word list: empty,
\* with or without pause_before_ms, texts with trailing whitespace.
BoundaryWordCounts == 0..3
BoundaryTexts == {<<"a">>, <<"b", ".">>, <<"c", "?", " ">>}
BoundaryPauses == {0, 3, 4, 5}
PauseThresholds == {300, 500}

\* A word of 2 ticks after its pause; durations do not matter to the
\* function.
BoundaryWord(from, text, pause) ==
    [text |-> text, start |-> from + pause, end |-> from + pause + 2,
     pause_before_ms |-> pause * TickMs]

WithoutPause(word) ==
    [f \in DOMAIN word \ {"pause_before_ms"} |-> word[f]]

BoundaryWords ==
    LET timed == {BoundaryWord(0, t, p) : t \in BoundaryTexts, p \in BoundaryPauses}
    IN  timed \cup {WithoutPause(w) : w \in timed}

BoundaryWordLists ==
    UNION {[1..n -> BoundaryWords] : n \in BoundaryWordCounts}

InitBoundaries ==
    /\ words \in BoundaryWordLists
    /\ min_pause_ms \in PauseThresholds
    /\ punctuation_pause_ms \in PauseThresholds
    /\ boundaries = <<>>
    /\ max_duration_sec = 0 /\ min_duration_sec = 0 /\ target_duration_sec = 0
    /\ clips = <<>> /\ clip_id = 0 /\ current_idx = 0
    /\ pc_clip = "call"
    /\ IdleChunk /\ IdleCut /\ IdlePhrase
    /\ IdleProcess /\ IdleLowres

\* Lines 22-63, one call.
FindSentenceBoundaries ==
    /\ pc_clip = "call"
    /\ boundaries' = find_sentence_boundaries(words, min_pause_ms,
                                              punctuation_pause_ms)
    /\ pc_clip' = "boundaries"
    /\ UNCHANGED <<clipIn, clips, clip_id, current_idx, notClip>>

NextBoundaries == FindSentenceBoundaries

SpecBoundaries == InitBoundaries /\ [][NextBoundaries]_vars

-----------------------------------------------------------------------------
(* Claims about group_into_clips *)

ClipsReturned == pc_clip = "returned"

\* C4: the clips partition the word indices exactly: the first clip starts at
\* index 0, every clip has start_idx <= end_idx, each next clip starts at the
\* previous end_idx + 1, the last clip ends at len(words) - 1, every word is in
\* exactly one clip, and the clip_id values are 1..n in order.
C4_IndexPartition ==
    /\ \A k \in 1..Len(clips) :
          /\ clips[k].clip_id = k
          /\ clips[k].start_idx <= clips[k].end_idx
          /\ clips[k].start_idx = IF k = 1 THEN 0 ELSE clips[k - 1].end_idx + 1
          /\ clips[k].end_idx <= Len(words) - 1
    /\ ClipsReturned =>
          /\ Len(clips) >= 1
          /\ clips[Len(clips)].end_idx = Len(words) - 1
          /\ \A i \in 0..(Len(words) - 1) :
                Cardinality({k \in 1..Len(clips) :
                    clips[k].start_idx <= i /\ i <= clips[k].end_idx}) = 1

\* C4's case: several clips, one of them of several words and one ended by
\* the lookahead.
C4_Witness ==
    /\ ClipsReturned
    /\ Len(clips) >= 2
    /\ \E k \in 1..Len(clips) : clips[k].word_count >= 3
    /\ \E k \in 1..Len(clips) : clips[k].word_count = 1

\* C5 as claimed: the first clip's start_sec is 0, each clip's end_sec equals
\* the next clip's start_sec, and the last clip's end_sec is the end of the
\* token stream.
C5_TimePartition ==
    ClipsReturned =>
        /\ clips[1].start_sec = 0
        /\ \A k \in 1..(Len(clips) - 1) : clips[k].end_sec = clips[k + 1].start_sec
        /\ clips[Len(clips)].end_sec = words[Len(words)].end

\* C5 as amended: every clip runs from the start of its first word to the end
\* of its last word, so the first clip starts where the first word starts, a
\* clip ends no later than the next one starts (the silence between the two
\* words belongs to no clip), and the last clip ends where the last word ends.
C5_ClipsSpanTheirWords ==
    /\ \A k \in 1..Len(clips) :
          /\ clips[k].start_sec = At(words, clips[k].start_idx).start
          /\ clips[k].end_sec = At(words, clips[k].end_idx).end
          /\ clips[k].duration_sec = clips[k].end_sec - clips[k].start_sec
    /\ \A k \in 1..(Len(clips) - 1) : clips[k].end_sec <= clips[k + 1].start_sec
    /\ ClipsReturned =>
          /\ clips[1].start_sec = words[1].start
          /\ clips[Len(clips)].end_sec = words[Len(words)].end

\* C5's case: speech that starts after 0, a silence between two clips, and a
\* clip that the lookahead extended to a boundary.
C5_Witness ==
    /\ ClipsReturned
    /\ clips[1].start_sec > 0
    /\ \E k \in 1..(Len(clips) - 1) : clips[k].end_sec < clips[k + 1].start_sec
    /\ \E k \in 1..Len(clips) : \E i \in (clips[k].start_idx + 1)..(clips[k].end_idx - 1) :
          At(words, i).end - clips[k].start_sec >= target_duration_sec

C7_AtLeastMin ==
    ClipsReturned =>
        \A k \in 1..(Len(clips) - 1) : clips[k].duration_sec >= min_duration_sec

-----------------------------------------------------------------------------
(* precision_trim.py : inputs.  Times in ticks of 25 ms. *)

\* 0.1 s: cuts this close are merged (line 249).
MergeTolerance == 4
\* 0.05 s: a gap must be longer than this to be kept (lines 285, 294).
MinKeepGap == 2

\* Silence before the first word, between two words and after the last
\* word, and the length of a word.
\* The numbers of words of the transcripts.
CutWordCounts == 1..3
HeadGaps == {1, 3}
InnerGaps == {3, 5}
TailGaps == {0, 1, 3}
CutWordDur == 2

CutWordShapes(n) ==
    {[i \in 1..n |-> [gap |-> g[i], dur |-> CutWordDur, text |-> <<"a">>]] :
        g \in {f \in [1..n -> HeadGaps \cup InnerGaps] :
                  /\ f[1] \in HeadGaps
                  /\ \A i \in 2..n : f[i] \in InnerGaps}}

\* The transcripts: an ascending word stream and the duration of the video,
\* which ends with or after the last word.
Transcripts ==
    {[words |-> FirstPauseZero(BuildWords(sh, 0)),
      duration_sec |-> BuildWords(sh, 0)[Len(sh)].end + tail] :
        sh \in UNION {CutWordShapes(n) : n \in CutWordCounts}, tail \in TailGaps}

\* The cut lists the decision service can answer with for n words: word
\* index pairs in any order, the k-th cut carrying the k-th reason.
Reasons == <<"filler", "retake", "pause">>
ResponseCuts(n) ==
    UNION {
        {[k \in 1..m |-> [start_word_idx |-> ix[k][1], end_word_idx |-> ix[k][2],
                          reason |-> <<Reasons[((k - 1) % Len(Reasons)) + 1]>>]] :
            ix \in [1..m -> (0..(n - 1)) \X (0..(n - 1))]} :
        m \in 0..MaxCuts}

-----------------------------------------------------------------------------
(* precision_trim.py : identify_cuts_with_gemini, lines 190-214 *)

\* Line 199: only an index at or beyond the end of the list is rejected.
ValidIndices(cut, ws) ==
    ~(cut.start_word_idx >= Len(ws) \/ cut.end_word_idx >= Len(ws))

\* words[i] of a list: a negative index counts from the end of the list.
Subscript(ws, i) == IF i >= 0 THEN ws[i + 1] ELSE ws[Len(ws) + i + 1]

\* words[i] raises IndexError below -len(words) (lines 204-205).
Subscriptable(cut, ws) ==
    /\ cut.start_word_idx >= 0 - Len(ws)
    /\ cut.end_word_idx >= 0 - Len(ws)

\* Lines 207-212: the cut with the times of the words it names.
Enrich(cut, ws) ==
    [start_word_idx |-> cut.start_word_idx, end_word_idx |-> cut.end_word_idx,
     reason |-> cut.reason,
     start_sec |-> Subscript(ws, cut.start_word_idx).start,
     end_sec |-> Subscript(ws, cut.end_word_idx).end,
     duration_sec |-> Subscript(ws, cut.end_word_idx).end
                        - Subscript(ws, cut.start_word_idx).start]

\* Lines 194-212: the validated cuts, up to the first cut that raises.
RECURSIVE ValidateCuts(_, _)
ValidateCuts(cs, ws) ==
    IF cs = <<>> THEN <<>>
    ELSE IF ~ValidIndices(Head(cs), ws) THEN ValidateCuts(Tail(cs), ws)
    ELSE IF ~Subscriptable(Head(cs), ws) THEN <<>>
    ELSE <<Enrich(Head(cs), ws)>> \o ValidateCuts(Tail(cs), ws)

\* Lines 199-205: some cut passes line 199 and raises IndexError.
Raises(cs, ws) ==
    \E k \in 1..Len(cs) : ValidIndices(cs[k], ws) /\ ~Subscriptable(cs[k], ws)

\* Line 200: the warnings printed for the skipped cuts.
RECURSIVE Warnings(_, _)
Warnings(cs, ws) ==
    IF cs = <<>> THEN <<>>
    ELSE IF ~ValidIndices(Head(cs), ws)
         THEN <<[note |-> "invalid word indices",
                 start_word_idx |-> Head(cs).start_word_idx,
                 end_word_idx |-> Head(cs).end_word_idx]>>
                  \o Warnings(Tail(cs), ws)
    ELSE IF ~Subscriptable(Head(cs), ws) THEN <<>>
    ELSE Warnings(Tail(cs), ws)

-----------------------------------------------------------------------------
(* precision_trim.py : merge_overlapping_cuts, lines 236-257 *)

\* sorted(cuts, key=start_sec): stable, by insertion.
RECURSIVE InsertByStart(_, _)
InsertByStart(sorted, cut) ==
    IF sorted = <<>> THEN <<cut>>
    ELSE IF cut.start_sec < sorted[Len(sorted)].start_sec
         THEN Append(InsertByStart(SubSeq(sorted, 1, Len(sorted) - 1), cut),
                     sorted[Len(sorted)])
         ELSE Append(sorted, cut)

RECURSIVE SortByStart(_)
SortByStart(cs) ==
    IF cs = <<>> THEN <<>>
    ELSE InsertByStart(SortByStart(SubSeq(cs, 1, Len(cs) - 1)), cs[Len(cs)])

\* Line 249.
Mergeable(cut, last) == cut.start_sec <= last.end_sec + MergeTolerance

\* Line 250, taking the absorbed cut's end instead of the later end.
MergedEndOfCut(last, cut) == cut.end_sec

\* Line 250.
MergedEnd(last, cut) == Max(last.end_sec, cut.end_sec)

\* Lines 250-253.
MergeInto(last, cut) ==
    LET end == MergedEnd(last, cut)
    IN  [last EXCEPT !.end_sec = end,
                     !.end_word_idx = Max(last.end_word_idx, cut.end_word_idx),
                     !.duration_sec = end - last.start_sec,
                     !.reason = last.reason \o <<" + ">> \o cut.reason]

\* Lines 246-255: the fold over the sorted cuts after the first.
RECURSIVE MergeFold(_, _)
MergeFold(merged, rest) ==
    IF rest = <<>> THEN merged
    ELSE LET cut == Head(rest)
             last == merged[Len(merged)]
         IN  IF Mergeable(cut, last)
             THEN MergeFold([merged EXCEPT ![Len(merged)] = MergeInto(last, cut)],
                            Tail(rest))
             ELSE MergeFold(Append(merged, cut), Tail(rest))

\* The fold comparing each cut with the cut sorted before it instead of with
\* the running merged cut.
RECURSIVE MergeFoldPrev(_, _, _)
MergeFoldPrev(merged, prev, rest) ==
    IF rest = <<>> THEN merged
    ELSE LET cut == Head(rest)
             last == merged[Len(merged)]
         IN  IF Mergeable(cut, prev)
             THEN MergeFoldPrev([merged EXCEPT ![Len(merged)] = MergeInto(last, cut)],
                                cut, Tail(rest))
             ELSE MergeFoldPrev(Append(merged, cut), cut, Tail(rest))

merge_against_previous(cs) ==
    IF cs = <<>> THEN <<>>
    ELSE LET sorted_cuts == SortByStart(cs)
         IN  MergeFoldPrev(<<Head(sorted_cuts)>>, Head(sorted_cuts), Tail(sorted_cuts))

merge_overlapping_cuts(cs) ==
    IF cs = <<>> THEN <<>>
    ELSE LET sorted_cuts == SortByStart(cs)
         IN  MergeFold(<<Head(sorted_cuts)>>, Tail(sorted_cuts))

-----------------------------------------------------------------------------
(* precision_trim.py : generate_keep_segments, lines 278-317 *)

KeepOf(from, to) == [start_sec |-> from, end_sec |-> to, duration_sec |-> to - from]

\* Line 291, moving to the start of the cut instead of its end.
AdvanceToCutStart(cut) == cut.start_sec

\* Line 291.
AdvanceCurrent(cut) == cut.end_sec

\* Lines 284-291: the raw keeps before the cuts, and where the walk ends.
RECURSIVE WalkCuts(_, _, _)
WalkCuts(cs, current, acc) ==
    IF cs = <<>> THEN [raw |-> acc, current |-> current]
    ELSE LET cut == Head(cs)
         IN  WalkCuts(Tail(cs), AdvanceCurrent(cut),
                      IF cut.start_sec > current + MinKeepGap
                      THEN Append(acc, KeepOf(current, cut.start_sec))
                      ELSE acc)

\* Lines 281-299.
RawKeeps(merged, duration) ==
    LET w == WalkCuts(merged, 0, <<>>)
    IN  IF w.current < duration - MinKeepGap
        THEN Append(w.raw, KeepOf(w.current, duration))
        ELSE w.raw

\* Line 308, dropping a segment of exactly the minimum duration.
LongerThan(keep, minKeep) == keep.duration_sec > minKeep

\* Line 308.
LongEnough(keep, minKeep) == keep.duration_sec >= minKeep

\* Lines 303-312.
FilterKeeps(raw, minKeep) == SelectSeq(raw, LAMBDA k : LongEnough(k, minKeep))
DroppedOf(raw, minKeep) == SelectSeq(raw, LAMBDA k : ~LongEnough(k, minKeep))

RECURSIVE SumDurations(_)
SumDurations(list) ==
    IF list = <<>> THEN 0 ELSE Head(list).duration_sec + SumDurations(Tail(list))

\* Line 315: the note printed when something was dropped.
DroppedNote(count, duration) ==
    [note |-> "dropped micro-segments", count |-> count, duration |-> duration]

InitCuts ==
    /\ transcript \in Transcripts
    /\ response_cuts \in ResponseCuts(Len(transcript.words))
    /\ min_keep_duration \in {3, 6}
    /\ validated_cuts = <<>>
    /\ merged_cuts = <<>>
    /\ raw_keeps = <<>>
    /\ keeps = <<>>
    /\ dropped_count = 0
    /\ dropped_duration = 0
    /\ pc_cut = "response"
    /\ result = NoResult /\ ffmpeg_runs = 0 /\ stdout = <<>>
    /\ mapped_words = <<>>
    /\ IdleChunk /\ IdleClip /\ IdlePhrase
    /\ IdleProcess /\ IdleLowres

\* identify_cuts_with_gemini, lines 190-214.
IdentifyCuts ==
    /\ pc_cut = "response"
    /\ stdout' = stdout \o Warnings(response_cuts, transcript.words)
    /\ IF Raises(response_cuts, transcript.words)
       THEN /\ pc_cut' = "IndexError"
            /\ UNCHANGED validated_cuts
       ELSE /\ validated_cuts' = ValidateCuts(response_cuts, transcript.words)
            /\ pc_cut' = "identified"
    /\ UNCHANGED <<cutIn, merged_cuts, raw_keeps, keeps, dropped_count,
                   dropped_duration, result, ffmpeg_runs, mapped_words, notCut>>

\* generate_keep_segments, lines 278-317, called by apply_precise_cuts with
\* the validated cuts and the transcript's duration.
GenerateKeepSegments ==
    /\ pc_cut = "identified"
    /\ LET merged == merge_overlapping_cuts(validated_cuts)
           raw == RawKeeps(merged, transcript.duration_sec)
           dropped == DroppedOf(raw, min_keep_duration)
       IN  /\ merged_cuts' = merged
           /\ raw_keeps' = raw
           /\ keeps' = FilterKeeps(raw, min_keep_duration)
           /\ dropped_count' = Len(dropped)
           /\ dropped_duration' = SumDurations(dropped)
           /\ stdout' = IF Len(dropped) > 0
                        THEN Append(stdout, DroppedNote(Len(dropped),
                                                        SumDurations(dropped)))
                        ELSE stdout
    /\ pc_cut' = "kept"
    /\ UNCHANGED <<cutIn, validated_cuts, result, ffmpeg_runs, mapped_words,
                   notCut>>

NextCuts == IdentifyCuts \/ GenerateKeepSegments

SpecCuts == InitCuts /\ [][NextCuts]_vars

-----------------------------------------------------------------------------
(* precision_trim.py : apply_precise_cuts, lines 346-419, and              *)
(* generate_captions.py : map_timestamps_to_trimmed, lines 38-69           *)

\* The most cuts of an answer in the trimming pipeline.
MaxTrimCuts == 2

\* Word index pairs of an answer for n words: every pair inside the list,
\* and pairs with an index one past the end, counting from the end, or below
\* the start of the list.
IndexPairs(n) ==
    ((0..(n - 1)) \X (0..(n - 1)))
        \cup {<<0 - 1, 0>>, <<0, n>>, <<n, 0>>, <<0 - (n + 1), 0>>}

TrimResponses(n) ==
    UNION {
        {[k \in 1..m |-> [start_word_idx |-> ix[k][1], end_word_idx |-> ix[k][2],
                          reason |-> <<Reasons[((k - 1) % Len(Reasons)) + 1]>>]] :
            ix \in [1..m -> IndexPairs(n)]} :
        m \in 0..MaxTrimCuts}

\* Lines 53-64 with the times in ticks of 25 ms.
MsPerTick == 25

\* Lines 53-54, adding the offset without subtracting the segment's start.
MappedWordUnshifted(word, seg_start, cumulative_offset) ==
    [text |-> word.text,
     start |-> word.start + cumulative_offset,
     end |-> word.end + cumulative_offset,
     startMs |-> (word.start + cumulative_offset) * MsPerTick,
     endMs |-> (word.end + cumulative_offset) * MsPerTick,
     original_start |-> word.start, original_end |-> word.end]

\* Lines 51-64: the word as it lies in the trimmed video.
MappedWord(word, seg_start, cumulative_offset) ==
    LET adjusted_start == word.start - seg_start + cumulative_offset
        adjusted_end == word.end - seg_start + cumulative_offset
    IN  [text |-> word.text,
         start |-> adjusted_start, end |-> adjusted_end,
         startMs |-> adjusted_start * MsPerTick,
         endMs |-> adjusted_end * MsPerTick,
         original_start |-> word.start, original_end |-> word.end]

\* Line 51, keeping a word that only starts inside the segment.
WithinStartOnly(word, segment) ==
    word.start >= segment.start_sec /\ word.start <= segment.end_sec

\* Line 51.
Within(word, segment) ==
    word.start >= segment.start_sec /\ word.end <= segment.end_sec

\* Lines 46-64: the words of one kept segment.
RECURSIVE MapSegment(_, _, _)
MapSegment(ws, segment, cumulative_offset) ==
    IF ws = <<>> THEN <<>>
    ELSE (IF Within(Head(ws), segment)
          THEN <<MappedWord(Head(ws), segment.start_sec, cumulative_offset)>>
          ELSE <<>>) \o MapSegment(Tail(ws), segment, cumulative_offset)

\* Line 67, leaving the offset where it was.
OffsetStale(cumulative_offset, segment) == cumulative_offset

\* Line 67.
NextOffset(cumulative_offset, segment) ==
    cumulative_offset + (segment.end_sec - segment.start_sec)

\* Lines 41-67: the fold over the kept segments.
RECURSIVE MapFrom(_, _, _)
MapFrom(ws, segments, cumulative_offset) ==
    IF segments = <<>> THEN <<>>
    ELSE MapSegment(ws, Head(segments), cumulative_offset)
            \o MapFrom(ws, Tail(segments),
                       NextOffset(cumulative_offset, Head(segments)))

map_timestamps_to_trimmed(ws, kept_segments) == MapFrom(ws, kept_segments, 0)

InitTrim ==
    /\ transcript \in Transcripts
    /\ response_cuts \in TrimResponses(Len(transcript.words))
    /\ min_keep_duration \in {3, 6}
    /\ validated_cuts = <<>>
    /\ merged_cuts = <<>>
    /\ raw_keeps = <<>>
    /\ keeps = <<>>
    /\ dropped_count = 0
    /\ dropped_duration = 0
    /\ pc_cut = "response"
    /\ result = NoResult /\ ffmpeg_runs = 0 /\ stdout = <<>>
    /\ mapped_words = <<>>
    /\ IdleChunk /\ IdleClip /\ IdlePhrase
    /\ IdleProcess /\ IdleLowres

\* Line 357, never taking the early return.
NeverEmpty(ks) == FALSE

\* Line 357.
NothingToKeep(ks) == Len(ks) = 0

\* apply_precise_cuts, lines 357-359: nothing is left to keep.
NoSegmentsToKeep ==
    /\ pc_cut = "kept"
    /\ NothingToKeep(keeps)
    /\ stdout' = Append(stdout, [note |-> "Error: No segments to keep!"])
    /\ result' = [error |-> "No segments to keep"]
    /\ pc_cut' = "failed"
    /\ UNCHANGED <<cutIn, validated_cuts, merged_cuts, raw_keeps, keeps,
                   dropped_count, dropped_duration, ffmpeg_runs, mapped_words,
                   notCut>>

\* apply_precise_cuts, lines 361-419: the media toolkit runs once; the
\* output file exists afterwards or it does not.
RunFFmpeg ==
    /\ pc_cut = "kept"
    /\ ~NothingToKeep(keeps)
    /\ ffmpeg_runs' = ffmpeg_runs + 1
    /\ \E exists \in BOOLEAN :
          IF exists
          THEN /\ result' = [output |-> "output_path",
                             duration_sec |-> SumDurations(keeps),
                             segments_kept |-> Len(keeps),
                             kept_segments |-> keeps]
               /\ pc_cut' = "applied"
          ELSE /\ result' = [error |-> "stderr"]
               /\ pc_cut' = "failed"
    /\ UNCHANGED <<cutIn, validated_cuts, merged_cuts, raw_keeps, keeps,
                   dropped_count, dropped_duration, stdout, mapped_words,
                   notCut>>

\* generate_captions_for_trimmed, lines 265-277, on the transcript and the
\* result of apply_precise_cuts.
MapTimestamps ==
    /\ pc_cut = "applied"
    /\ mapped_words' = map_timestamps_to_trimmed(transcript.words,
                                                 result.kept_segments)
    /\ pc_cut' = "mapped"
    /\ UNCHANGED <<cutIn, validated_cuts, merged_cuts, raw_keeps, keeps,
                   dropped_count, dropped_duration, result, ffmpeg_runs,
                   stdout, notCut>>

NextTrim ==
    \/ IdentifyCuts
    \/ GenerateKeepSegments
    \/ NoSegmentsToKeep
    \/ RunFFmpeg
    \/ MapTimestamps

SpecTrim == InitTrim /\ [][NextTrim]_vars

-----------------------------------------------------------------------------
(* generate_captions.py : map_timestamps_to_trimmed on any transcript and  *)
(* any kept-segment file                                                   *)

\* The most kept segments of a kept-segment file.
MaxKeeps == 2

\* The word streams: ascending, non-overlapping, words touching or apart.
RemapWordCounts == 1..2
RemapGaps == {0, 1}
RemapDurs == {1, 2}

RemapShapes(n) ==
    [1..n -> [gap : RemapGaps, dur : RemapDurs, text : {<<"a">>}]]

RemapTranscripts ==
    {[words |-> FirstPauseZero(BuildWords(sh, 0)),
      duration_sec |-> BuildWords(sh, 0)[Len(sh)].end] :
        sh \in UNION {RemapShapes(n) : n \in RemapWordCounts}}

\* The kept-segment lists of a file for a video of the given duration: up to
\* MaxKeeps intervals in any order, overlapping ones included.
KeptLists(duration) ==
    LET Intervals == {KeepOf(iv[1], iv[2]) :
                        iv \in {p \in (0..duration) \X (0..duration) : p[1] < p[2]}}
    IN  UNION {[1..m -> Intervals] : m \in 0..MaxKeeps}

\* generate_captions_for_trimmed, lines 258-269: the transcript and the kept
\* segments are loaded from the two files.
InitRemap ==
    /\ transcript \in RemapTranscripts
    /\ \E ks \in KeptLists(transcript.duration_sec) :
          result = [kept_segments |-> ks]
    /\ response_cuts = <<>> /\ min_keep_duration = 0
    /\ validated_cuts = <<>> /\ merged_cuts = <<>> /\ raw_keeps = <<>>
    /\ keeps = <<>> /\ dropped_count = 0 /\ dropped_duration = 0
    /\ pc_cut = "applied"
    /\ ffmpeg_runs = 0 /\ stdout = <<>>
    /\ mapped_words = <<>>
    /\ IdleChunk /\ IdleClip /\ IdlePhrase
    /\ IdleProcess /\ IdleLowres

NextRemap == MapTimestamps

SpecRemap == InitRemap /\ [][NextRemap]_vars

\* The remapper on word streams with zero-length words and on chronological
\* Segment lists whose segments may touch.
InstantDurs == {0, 1}
InstantWordCounts == 1..3

InstantShapes(n) ==
    [1..n -> [gap : RemapGaps, dur : InstantDurs, text : {<<"a">>}]]

InstantTranscripts ==
    {[words |-> FirstPauseZero(BuildWords(sh, 0)),
      duration_sec |-> BuildWords(sh, 0)[Len(sh)].end] :
        sh \in UNION {InstantShapes(n) : n \in InstantWordCounts}}

\* Chronological, pairwise non-overlapping segments; one may end where the
\* next starts.
SegmentLists(duration) ==
    {ks \in KeptLists(duration) :
        \A j \in 1..(Len(ks) - 1) : ks[j].end_sec <= ks[j + 1].start_sec}

InitSegments ==
    /\ transcript \in InstantTranscripts
    /\ \E ks \in SegmentLists(transcript.duration_sec) :
          result = [kept_segments |-> ks]
    /\ response_cuts = <<>> /\ min_keep_duration = 0
    /\ validated_cuts = <<>> /\ merged_cuts = <<>> /\ raw_keeps = <<>>
    /\ keeps = <<>> /\ dropped_count = 0 /\ dropped_duration = 0
    /\ pc_cut = "applied"
    /\ ffmpeg_runs = 0 /\ stdout = <<>>
    /\ mapped_words = <<>>
    /\ IdleChunk /\ IdleClip /\ IdlePhrase
    /\ IdleProcess /\ IdleLowres

SpecSegments == InitSegments /\ [][NextRemap]_vars

-----------------------------------------------------------------------------
(* Claims about merge_overlapping_cuts and generate_keep_segments *)

Kept == pc_cut = "kept"

\* Every cut given to the merge has start_sec <= end_sec.
WellFormedCuts ==
    \A k \in 1..Len(validated_cuts) :
        validated_cuts[k].start_sec <= validated_cuts[k].end_sec

Contains(m, c) == m.start_sec <= c.start_sec /\ c.end_sec <= m.end_sec

AbsorbedBy(m) ==
    {k \in 1..Len(validated_cuts) : Contains(m, validated_cuts[k])}

\* C8: for cuts with start_sec <= end_sec the merged cuts are sorted by
\* start_sec, each next one starts more than 0.1 s after the previous one's
\* end_sec, every input cut is contained in exactly one merged cut, each
\* merged cut runs from the smallest start_sec to the largest end_sec of the
\* input cuts it absorbed, and its duration_sec is end_sec - start_sec.
C8_MergedCutsDisjointCover ==
    (Kept /\ WellFormedCuts) =>
        /\ \A i \in 1..(Len(merged_cuts) - 1) :
              /\ merged_cuts[i].start_sec <= merged_cuts[i + 1].start_sec
              /\ merged_cuts[i + 1].start_sec
                    > merged_cuts[i].end_sec + MergeTolerance
        /\ \A k \in 1..Len(validated_cuts) :
              Cardinality({i \in 1..Len(merged_cuts) :
                  Contains(merged_cuts[i], validated_cuts[k])}) = 1
        /\ \A i \in 1..Len(merged_cuts) :
              /\ AbsorbedBy(merged_cuts[i]) # {}
              /\ \E k \in AbsorbedBy(merged_cuts[i]) :
                    /\ validated_cuts[k].start_sec = merged_cuts[i].start_sec
                    /\ \A j \in AbsorbedBy(merged_cuts[i]) :
                          validated_cuts[k].start_sec <= validated_cuts[j].start_sec
              /\ \E k \in AbsorbedBy(merged_cuts[i]) :
                    /\ validated_cuts[k].end_sec = merged_cuts[i].end_sec
                    /\ \A j \in AbsorbedBy(merged_cuts[i]) :
                          validated_cuts[j].end_sec <= validated_cuts[k].end_sec
              /\ merged_cuts[i].duration_sec
                    = merged_cuts[i].end_sec - merged_cuts[i].start_sec

\* C8's case: two cuts given out of order, the later one nested in or close
\* to the earlier one, merged into one cut that ends at the larger end.
C8_Witness ==
    /\ Kept /\ WellFormedCuts
    /\ Len(validated_cuts) = 2 /\ Len(merged_cuts) = 1
    /\ validated_cuts[1].start_sec > validated_cuts[2].start_sec
    /\ validated_cuts[1].end_sec < validated_cuts[2].end_sec
    /\ merged_cuts[1].end_sec = validated_cuts[2].end_sec

\* C9: merging a merged list again returns the identical list: the same
\* intervals, order, word indices and reasons.
C9_MergeIdempotent ==
    Kept => merge_overlapping_cuts(merged_cuts) = merged_cuts

\* C9's case: the first merge reordered the cuts and merged some of them,
\* and left two cuts for the second merge to compare.
C9_Witness ==
    /\ Kept
    /\ Len(validated_cuts) = 3
    /\ Len(merged_cuts) = 2
    /\ validated_cuts[1].start_sec > validated_cuts[3].start_sec
    /\ \E i \in 1..Len(merged_cuts) : Len(merged_cuts[i].reason) > 1

\* The cuts lie inside [0, duration] and are well formed.
CutsInsideTimeline ==
    /\ WellFormedCuts
    /\ \A k \in 1..Len(validated_cuts) :
          /\ 0 <= validated_cuts[k].start_sec
          /\ validated_cuts[k].end_sec <= transcript.duration_sec

AccountedFor ==
    SumDurations(merged_cuts) + SumDurations(keeps) + dropped_duration

\* C10 as claimed: merged cut durations + keep durations + dropped
\* micro-segment durations = total duration, gaps shorter than 50 ms before
\* the first cut or after the last cut included.
C10_Complementarity ==
    (Kept /\ CutsInsideTimeline) => AccountedFor = transcript.duration_sec

\* The gap before the first merged cut and after the last one, when it is at
\* most 50 ms: neither kept nor counted as dropped.
SkippedHead ==
    IF merged_cuts # <<>> /\ merged_cuts[1].start_sec <= MinKeepGap
    THEN merged_cuts[1].start_sec ELSE 0

SkippedTail ==
    LET last == IF merged_cuts = <<>> THEN 0
                ELSE merged_cuts[Len(merged_cuts)].end_sec
    IN  IF transcript.duration_sec - last <= MinKeepGap
        THEN transcript.duration_sec - last ELSE 0

\* C10 as amended: merged cut durations + keep durations + dropped
\* micro-segment durations + the gaps of at most 50 ms before the first
\* merged cut and after the last one = total duration; such a gap is left
\* out of all three sums, so the sum falls short by at most 100 ms.
C10_ComplementarityButShortGaps ==
    (Kept /\ CutsInsideTimeline) =>
        /\ AccountedFor + SkippedHead + SkippedTail = transcript.duration_sec
        /\ AccountedFor <= transcript.duration_sec
        /\ AccountedFor >= transcript.duration_sec - 2 * MinKeepGap

\* C10's case: a gap shorter than 50 ms before the first cut, a dropped
\* micro-segment, a kept segment and two merged cuts.
C10_Witness ==
    /\ Kept /\ CutsInsideTimeline
    /\ SkippedHead = 1
    /\ dropped_count > 0
    /\ keeps # <<>>
    /\ Len(merged_cuts) = 2

-----------------------------------------------------------------------------
(* generate_captions.py : group_words_into_phrases, lines 92-163 *)

\* The most words of a list given to the grouping.
MaxPhraseWords == 3

\* Texts with and without closing punctuation, and one that ends in a space.
PhraseTexts == {<<"a">>, <<"b", ".">>, <<"!", " ">>}
PhraseGaps == {0, 2}
PhraseDurs == {2}

\* The word lists: mapped words with startMs and endMs, ascending.
PhraseShapes(n) ==
    [1..n -> [gap : PhraseGaps, dur : PhraseDurs, text : PhraseTexts]]

RECURSIVE BuildMapped(_, _)
BuildMapped(shape, from) ==
    IF shape = <<>> THEN <<>>
    ELSE LET h == Head(shape)
             w == [text |-> h.text,
                   startMs |-> (from + h.gap) * TickMs,
                   endMs |-> (from + h.gap + h.dur) * TickMs]
         IN  <<w>> \o BuildMapped(Tail(shape), from + h.gap + h.dur)

PhraseWordLists ==
    {BuildMapped(sh, 0) : sh \in UNION {PhraseShapes(n) : n \in 0..MaxPhraseWords}}

\* The thresholds: a tight and a loose value of each.
WordLimits == {0, 2, 6}
CharLimits == {3, 40}
DurationLimits == {500, 3000}
PauseLimits == {200}

\* Line 134.
phrase_enders == {".", "!", "?"}

\* Line 129, breaking only on a pause longer than the minimum.
PauseExceeds(pause_ms, minPause) == pause_ms > minPause

\* Line 129.
PauseBreaks(pause_ms, minPause) == pause_ms >= minPause

\* Line 134, never breaking on punctuation.
EndsNothing(prev_text) == FALSE

\* Line 134.
EndsSentence(prev_text) ==
    prev_text # <<>> /\ prev_text[Len(prev_text)] \in phrase_enders

\* Lines 110-135: whether the phrase is closed before the word.
ShouldBreak(current, start, word, maxWords, maxChars, maxDuration, minPause) ==
    LET next_text == JoinTexts(current) \o <<" ">> \o word.text
        prev_word == current[Len(current)]
        limits ==
            IF Len(current) >= maxWords THEN TRUE
            ELSE IF Len(next_text) > maxChars THEN TRUE
            ELSE IF word.endMs - start > maxDuration THEN TRUE
            ELSE PauseBreaks(word.startMs - prev_word.endMs, minPause)
    IN  limits \/ EndsSentence(Strip(prev_word.text))

\* Lines 140-146 and 155-161.
PhraseOf(current, start) ==
    [text |-> JoinTexts(current), startMs |-> start,
     endMs |-> current[Len(current)].endMs, words |-> current]

\* Line 148, starting the next phrase empty.
RestartEmpty(word) == <<>>

\* Line 148.
RestartWith(word) == <<word>>

\* Line 149, keeping the start of the phrase just closed.
StartKept(word, start) == start

\* Line 149.
StartOf(word, start) == word.startMs

\* Lines 99-161 as one fold: the phrases of the words from ws on, given the
\* phrases closed so far and the open phrase.
RECURSIVE GroupFrom(_, _, _, _, _)
GroupFrom(ws, closed, current, start, th) ==
    IF ws = <<>>
    THEN IF current # <<>> THEN Append(closed, PhraseOf(current, start))
         ELSE closed
    ELSE LET word == Head(ws)
         IN  IF current = <<>>
             THEN GroupFrom(Tail(ws), closed, <<word>>, word.startMs, th)
             ELSE IF ShouldBreak(current, start, word, th.max_words_per_phrase,
                                 th.max_chars_per_phrase, th.max_duration_ms,
                                 th.min_pause_for_break_ms)
             THEN GroupFrom(Tail(ws), Append(closed, PhraseOf(current, start)),
                            RestartWith(word), StartOf(word, start), th)
             ELSE GroupFrom(Tail(ws), closed, Append(current, word), start, th)

\* Lines 92-163: one call on its own.
group_words_into_phrases(ws, th) ==
    IF ws = <<>> THEN <<>> ELSE GroupFrom(ws, <<>>, <<>>, "None", th)

\* generate_captions_for_trimmed, lines 282-299: the grouping is called on
\* the mapped words with the thresholds of one layout.
InitPhrases ==
    /\ mapped_words \in PhraseWordLists
    /\ max_words_per_phrase \in WordLimits
    /\ max_chars_per_phrase \in CharLimits
    /\ max_duration_ms \in DurationLimits
    /\ min_pause_for_break_ms \in PauseLimits
    /\ phrases = <<>>
    /\ current_phrase_words = <<>>
    /\ current_phrase_start = "None"
    /\ word_i = 0
    /\ pc_phrase = "call"
    /\ phrases_horizontal = <<>> /\ phrases_vertical = <<>>
    /\ pc_caption = "horizontal"
    /\ transcript = [words |-> <<>>, duration_sec |-> 0]
    /\ response_cuts = <<>> /\ min_keep_duration = 0
    /\ validated_cuts = <<>> /\ merged_cuts = <<>> /\ raw_keeps = <<>>
    /\ keeps = <<>> /\ dropped_count = 0 /\ dropped_duration = 0
    /\ pc_cut = "mapped"
    /\ result = NoResult /\ ffmpeg_runs = 0 /\ stdout = <<>>
    /\ IdleChunk /\ IdleClip /\ IdleProcess /\ IdleLowres

\* Lines 92-93.
NoWords ==
    /\ pc_phrase = "call"
    /\ mapped_words = <<>>
    /\ phrases' = <<>>
    /\ pc_phrase' = "returned"
    /\ UNCHANGED <<phraseIn, current_phrase_words, current_phrase_start,
                   word_i, captionVars, notPhrase>>

\* Lines 95-99, keeping the phrases of the call before.
EnterWordsKeepingPhrases ==
    /\ pc_phrase = "call"
    /\ mapped_words # <<>>
    /\ current_phrase_words' = <<>>
    /\ current_phrase_start' = "None"
    /\ word_i' = 0
    /\ pc_phrase' = "loop"
    /\ UNCHANGED <<phraseIn, phrases, captionVars, notPhrase>>

\* Lines 95-99: the locals of the call, and the loop entered.
EnterWords ==
    /\ pc_phrase = "call"
    /\ mapped_words # <<>>
    /\ phrases' = <<>>
    /\ current_phrase_words' = <<>>
    /\ current_phrase_start' = "None"
    /\ word_i' = 0
    /\ pc_phrase' = "loop"
    /\ UNCHANGED <<phraseIn, captionVars, notPhrase>>

\* Lines 99-151: one iteration of the loop over the words.
PhraseWord ==
    /\ pc_phrase = "loop"
    /\ word_i < Len(mapped_words)
    /\ LET word == At(mapped_words, word_i)
       IN  IF current_phrase_words = <<>>
           THEN /\ current_phrase_start' = word.startMs
                /\ current_phrase_words' = Append(current_phrase_words, word)
                /\ UNCHANGED phrases
           ELSE IF ShouldBreak(current_phrase_words, current_phrase_start, word,
                               max_words_per_phrase, max_chars_per_phrase,
                               max_duration_ms, min_pause_for_break_ms)
           THEN /\ phrases' = Append(phrases,
                                PhraseOf(current_phrase_words, current_phrase_start))
                /\ current_phrase_words' = RestartWith(word)
                /\ current_phrase_start' = StartOf(word, current_phrase_start)
           ELSE /\ current_phrase_words' = Append(current_phrase_words, word)
                /\ UNCHANGED <<phrases, current_phrase_start>>
    /\ word_i' = word_i + 1
    /\ UNCHANGED <<phraseIn, pc_phrase, captionVars, notPhrase>>

\* Lines 153-163: the last phrase, and the return.
LastPhrase ==
    /\ pc_phrase = "loop"
    /\ word_i = Len(mapped_words)
    /\ phrases' = IF current_phrase_words # <<>>
                  THEN Append(phrases,
                        PhraseOf(current_phrase_words, current_phrase_start))
                  ELSE phrases
    /\ pc_phrase' = "returned"
    /\ UNCHANGED <<phraseIn, current_phrase_words, current_phrase_start,
                   word_i, captionVars, notPhrase>>

\* generate_captions_for_trimmed, lines 282-299: the first call has returned
\* and the second is made on the same mapped words with other thresholds.
SecondLayout ==
    /\ pc_caption = "horizontal"
    /\ pc_phrase = "returned"
    /\ phrases_horizontal' = phrases
    /\ max_words_per_phrase' \in WordLimits
    /\ max_chars_per_phrase' \in CharLimits
    /\ max_duration_ms' \in DurationLimits
    /\ min_pause_for_break_ms' \in PauseLimits
    /\ pc_phrase' = "call"
    /\ pc_caption' = "vertical"
    /\ UNCHANGED <<phrases, current_phrase_words, current_phrase_start, word_i,
                   phrases_vertical, notPhrase>>

\* generate_captions_for_trimmed, lines 293-300: the second call has returned.
LayoutsDone ==
    /\ pc_caption = "vertical"
    /\ pc_phrase = "returned"
    /\ phrases_vertical' = phrases
    /\ pc_caption' = "done"
    /\ UNCHANGED <<phraseIn, phraseLocals, phrases_horizontal, notPhrase>>

NextPhrases ==
    \/ NoWords
    \/ EnterWords
    \/ PhraseWord
    \/ LastPhrase
    \/ SecondLayout
    \/ LayoutsDone

SpecPhrases == InitPhrases /\ [][NextPhrases]_vars

-----------------------------------------------------------------------------
(* process_chunks.py : main, lines 134-206, and transcribe_chunk *)

\* The most chunks of a directory.
MaxChunks == 3

\* The durations ffprobe reports, in seconds.
ChunkDurations == {2, 3}

\* The chunk files in the order of their numbers (line 135), each with its
\* duration and whether its transcription succeeds.
ChunkFiles ==
    UNION {{[n \in 1..m |-> [chunk_num |-> n - 1, duration |-> d[n],
                             transcribes |-> ok[n]]] :
               d \in [1..m -> ChunkDurations], ok \in [1..m -> BOOLEAN]} :
           m \in 1..MaxChunks}

\* Lines 143-150: the tasks with their global offsets.
RECURSIVE TasksFrom(_, _)
TasksFrom(files, global_offset) ==
    IF files = <<>> THEN <<>>
    ELSE <<[chunk_num |-> Head(files).chunk_num, global_offset |-> global_offset]>>
            \o TasksFrom(Tail(files), global_offset + Head(files).duration)

\* Lines 56-107: the result of a worker.  The service returns one segment
\* over the chunk and a word at its start, in the chunk's own time.
transcribe_chunk(file, global_offset) ==
    IF file.transcribes
    THEN [chunk_num |-> file.chunk_num, global_offset |-> global_offset,
          duration |-> file.duration, text |-> <<"t", file.chunk_num>>,
          segments |-> <<[start |-> 0 + global_offset,
                          end |-> file.duration + global_offset,
                          chunk |-> file.chunk_num]>>,
          words |-> <<[start |-> 0 + global_offset, end |-> 1 + global_offset,
                       chunk |-> file.chunk_num]>>,
          success |-> TRUE]
    ELSE [chunk_num |-> file.chunk_num, global_offset |-> global_offset,
          duration |-> file.duration, error |-> "error", success |-> FALSE]

\* Lines 109-120.
process_single_chunk(n) ==
    transcribe_chunk(chunk_files[n], chunk_tasks[n].global_offset)

\* Line 174: results.sort(key=chunk_num), stable, by insertion.
RECURSIVE InsertByChunkNum(_, _)
InsertByChunkNum(sorted, r) ==
    IF sorted = <<>> THEN <<r>>
    ELSE IF r.chunk_num < sorted[Len(sorted)].chunk_num
         THEN Append(InsertByChunkNum(SubSeq(sorted, 1, Len(sorted) - 1), r),
                     sorted[Len(sorted)])
         ELSE Append(sorted, r)

RECURSIVE SortedByChunkNum(_)
SortedByChunkNum(rs) ==
    IF rs = <<>> THEN <<>>
    ELSE InsertByChunkNum(SortedByChunkNum(SubSeq(rs, 1, Len(rs) - 1)), rs[Len(rs)])

\* Line 174, left out.
CompletionOrder(rs) == rs

\* Line 174.
SortResults(rs) == SortedByChunkNum(rs)

\* Lines 181-185.
RECURSIVE AllOf(_, _)
AllOf(rs, field) ==
    IF rs = <<>> THEN <<>>
    ELSE (IF Head(rs).success THEN Head(rs)[field] ELSE <<>>)
            \o AllOf(Tail(rs), field)

\* Lines 173-206.
IndexOf(rs, files) ==
    LET sorted == SortResults(rs)
    IN  [total_chunks |-> Len(files),
         total_duration |-> IF files = <<>> THEN 0
                            ELSE TasksFrom(files, 0)[Len(files)].global_offset
                                    + files[Len(files)].duration,
         chunks |-> [k \in 1..Len(sorted) |->
                        [chunk_num |-> sorted[k].chunk_num,
                         global_offset |-> sorted[k].global_offset,
                         duration |-> sorted[k].duration,
                         success |-> sorted[k].success]],
         segments |-> AllOf(sorted, "segments"),
         words |-> AllOf(sorted, "words")]

InitProcess ==
    /\ chunk_files \in ChunkFiles
    /\ sequential \in BOOLEAN
    /\ chunk_tasks = <<>>
    /\ futures = {}
    /\ results = <<>>
    /\ completed = <<>>
    /\ index = NoIndex
    /\ pc_main = "found"
    /\ IdleChunk /\ IdleClip /\ IdleCut /\ IdlePhrase /\ IdleLowres

\* Lines 143-150.
ComputeOffsets ==
    /\ pc_main = "found"
    /\ chunk_tasks' = TasksFrom(chunk_files, 0)
    /\ pc_main' = "tasks"
    /\ UNCHANGED <<processIn, futures, results, completed, index, notProcess>>

\* Lines 158-162: the next task, in the order of the tasks.
ProcessSequentially ==
    /\ pc_main = "tasks"
    /\ sequential
    /\ Len(results) < Len(chunk_tasks)
    /\ results' = Append(results, process_single_chunk(Len(results) + 1))
    /\ completed' = Append(completed, chunk_tasks[Len(results) + 1].chunk_num)
    /\ UNCHANGED <<processIn, chunk_tasks, futures, index, pc_main, notProcess>>

\* Lines 164-165: every task is submitted to the pool.
SubmitAll ==
    /\ pc_main = "tasks"
    /\ ~sequential
    /\ futures' = 1..Len(chunk_tasks)
    /\ pc_main' = "waiting"
    /\ UNCHANGED <<processIn, chunk_tasks, results, completed, index,
                   notProcess>>

\* Lines 167-171: a future completes, in any order, and its result is
\* appended; line 171 prints its chunk number.
FutureCompleted(n) ==
    /\ pc_main = "waiting"
    /\ n \in futures
    /\ results' = Append(results, process_single_chunk(n))
    /\ completed' = Append(completed, chunk_tasks[n].chunk_num)
    /\ futures' = futures \ {n}
    /\ UNCHANGED <<processIn, chunk_tasks, index, pc_main, notProcess>>

\* Lines 173-206: after the loop over the tasks or over the futures.
MergeResults ==
    /\ \/ pc_main = "tasks" /\ sequential /\ Len(results) = Len(chunk_tasks)
       \/ pc_main = "waiting" /\ futures = {}
    /\ index' = IndexOf(results, chunk_files)
    /\ results' = SortResults(results)
    /\ pc_main' = "merged"
    /\ UNCHANGED <<processIn, chunk_tasks, futures, completed, notProcess>>

NextProcess ==
    \/ ComputeOffsets
    \/ ProcessSequentially
    \/ SubmitAll
    \/ \E n \in 1..MaxChunks : FutureCompleted(n)
    \/ MergeResults

SpecProcess == InitProcess /\ [][NextProcess]_vars

-----------------------------------------------------------------------------
(* lowres_convert.py : create_lowres_clips, lines 124-225 *)

\* The most clips of a directory.
MaxClips == 3

\* The clip files in sorted order (line 124), each with whether its
\* conversion leaves an output file.
ClipFiles ==
    UNION {{[n \in 1..m |-> [name |-> n, converts |-> ok[n]]] :
               ok \in [1..m -> BOOLEAN]} :
           m \in 1..MaxClips}

\* parallel <= 1 and parallel > 1 (line 154).
ParallelChoices == {1, 4}

\* Lines 76-96: the result of a conversion.
convert_clip_lowres(file) ==
    IF file.converts
    THEN [success |-> TRUE, input_path |-> file.name, output_size_bytes |-> 1]
    ELSE [success |-> FALSE, input_path |-> file.name, error |-> "error"]

\* Lines 216-224: the index entries, numbered by position in results.
RECURSIVE ClipEntries(_, _)
ClipEntries(rs, i) ==
    IF i >= Len(rs) THEN <<>>
    ELSE (IF At(rs, i).success
          THEN <<[clip_id |-> i + 1, original_path |-> At(rs, i).input_path,
                  size_bytes |-> At(rs, i).output_size_bytes]>>
          ELSE <<>>) \o ClipEntries(rs, i + 1)

\* Lines 202-225.
OutputData(rs) ==
    [num_clips |-> Len(SelectSeq(rs, LAMBDA x : x.success)),
     num_failed |-> Len(SelectSeq(rs, LAMBDA x : ~x.success)),
     clips |-> ClipEntries(rs, 0)]

InitLowres ==
    /\ clip_files \in ClipFiles
    /\ parallel \in ParallelChoices
    /\ lowres_futures = {}
    /\ lowres_results = <<>>
    /\ output_data = NoIndex
    /\ pc_lowres = "found"
    /\ IdleChunk /\ IdleClip /\ IdleCut /\ IdlePhrase /\ IdleProcess

\* Lines 156-167: every conversion is submitted to the pool.
SubmitConversions ==
    /\ pc_lowres = "found"
    /\ parallel > 1
    /\ lowres_futures' = 1..Len(clip_files)
    /\ pc_lowres' = "waiting"
    /\ UNCHANGED <<lowresIn, lowres_results, output_data, notLowres>>

\* Lines 169-180: a conversion completes, in any order, and its result is
\* appended.
ConversionCompleted(n) ==
    /\ pc_lowres = "waiting"
    /\ n \in lowres_futures
    /\ lowres_results' = Append(lowres_results, convert_clip_lowres(clip_files[n]))
    /\ lowres_futures' = lowres_futures \ {n}
    /\ UNCHANGED <<lowresIn, output_data, pc_lowres, notLowres>>

\* Lines 181-199: the next clip, in the order of the files.
ConvertSequentially ==
    /\ pc_lowres = "found"
    /\ parallel <= 1
    /\ Len(lowres_results) < Len(clip_files)
    /\ lowres_results' = Append(lowres_results,
            convert_clip_lowres(clip_files[Len(lowres_results) + 1]))
    /\ UNCHANGED <<lowresIn, lowres_futures, output_data, pc_lowres, notLowres>>

\* Lines 201-229: lowres_index.json is written.
WriteLowresIndex ==
    /\ \/ pc_lowres = "found" /\ parallel <= 1
          /\ Len(lowres_results) = Len(clip_files)
       \/ pc_lowres = "waiting" /\ lowres_futures = {}
    /\ output_data' = OutputData(lowres_results)
    /\ pc_lowres' = "written"
    /\ UNCHANGED <<lowresIn, lowres_futures, lowres_results, notLowres>>

NextLowres ==
    \/ SubmitConversions
    \/ \E n \in 1..MaxClips : ConversionCompleted(n)
    \/ ConvertSequentially
    \/ WriteLowresIndex

SpecLowres == InitLowres /\ [][NextLowres]_vars

-----------------------------------------------------------------------------
(* Claims about the keep segments, the jitter filter and the validation *)

Overlap(a, b) == a.start_sec < b.end_sec /\ b.start_sec < a.end_sec

\* C11: for every cut list that passed the index validation the keep
\* segments are in chronological order, pairwise non-overlapping, each with
\* start_sec < end_sec, inside [0, duration], and none overlaps an input cut.
C11_KeepsDisjointFromCuts ==
    Kept =>
        /\ \A i \in 1..Len(keeps) :
              /\ keeps[i].start_sec < keeps[i].end_sec
              /\ 0 <= keeps[i].start_sec
              /\ keeps[i].end_sec <= transcript.duration_sec
              /\ \A k \in 1..Len(validated_cuts) :
                    ~Overlap(keeps[i], validated_cuts[k])
        /\ \A i \in 1..(Len(keeps) - 1) :
              keeps[i].end_sec <= keeps[i + 1].start_sec

\* C12: the returned keeps are exactly the raw keep intervals of duration
\* >= min_keep_duration, in their original order and unchanged; a dropped
\* interval is left out and its neighbours are not extended over it.
C12_JitterFilter ==
    Kept =>
        LET long == {i \in 1..Len(raw_keeps) :
                        raw_keeps[i].end_sec - raw_keeps[i].start_sec
                            >= min_keep_duration}
            nth(k) == CHOOSE i \in long :
                        Cardinality({j \in long : j < i}) = k - 1
        IN  /\ Len(keeps) = Cardinality(long)
            /\ \A k \in 1..Len(keeps) :
                  /\ keeps[k].start_sec = raw_keeps[nth(k)].start_sec
                  /\ keeps[k].end_sec = raw_keeps[nth(k)].end_sec
            /\ dropped_count = Len(raw_keeps) - Len(keeps)

\* C12's case: a raw interval shorter than the minimum is dropped and one of
\* exactly the minimum duration after it is kept.
C12_Witness ==
    /\ Kept
    /\ Len(raw_keeps) >= 2
    /\ raw_keeps[1].duration_sec < min_keep_duration
    /\ keeps # <<>>
    /\ keeps[1].duration_sec = min_keep_duration

Applied == pc_cut \in {"applied", "failed", "mapped"}

\* C13: whenever the jitter filter drops an interval, the result that
\* apply_precise_cuts returns carries the number of dropped intervals and
\* their total duration.
C13_DroppedReported ==
    (Applied /\ dropped_count > 0) =>
        {"dropped_count", "dropped_duration"} \subseteq DOMAIN result

\* The valid index range of a word list.
InRange(i, ws) == 0 <= i /\ i < Len(ws)

CutInRange(cut, ws) ==
    InRange(cut.start_word_idx, ws) /\ InRange(cut.end_word_idx, ws)

\* C14: a cut with a word index below 0 or >= the number of words is skipped:
\* it is not among the validated cuts; the other cuts are validated, in their
\* order, and processing continues.
C14_OutOfRangeSkipped ==
    pc_cut # "response" =>
        /\ pc_cut # "IndexError"
        /\ validated_cuts
             = ValidateCuts(SelectSeq(response_cuts,
                                LAMBDA c : CutInRange(c, transcript.words)),
                            transcript.words)

\* C15: when no keep segment is left, apply_precise_cuts returns a result
\* carrying an error, with no output path and no kept_segments, and the media
\* toolkit has not run.
C15_NoContentRemaining ==
    (Applied /\ keeps = <<>>) =>
        /\ "error" \in DOMAIN result
        /\ "output" \notin DOMAIN result
        /\ "kept_segments" \notin DOMAIN result
        /\ ffmpeg_runs = 0
        /\ pc_cut = "failed"

\* C15's case: every raw keep interval was filtered away.
C15_Witness ==
    /\ pc_cut = "failed"
    /\ raw_keeps # <<>>
    /\ keeps = <<>>
    /\ result = [error |-> "No segments to keep"]

-----------------------------------------------------------------------------
(* Claims about map_timestamps_to_trimmed *)

Mapped == pc_cut = "mapped"

kept_segments == result.kept_segments

\* The sum of the durations of the kept segments before the j-th.
RECURSIVE OffsetBefore(_)
OffsetBefore(j) ==
    IF j <= 1 THEN 0
    ELSE OffsetBefore(j - 1)
            + (kept_segments[j - 1].end_sec - kept_segments[j - 1].start_sec)

FullyInside(w, seg) == seg.start_sec <= w.start /\ w.end <= seg.end_sec

\* The (segment, word) pairs with the word fully inside the segment, in the
\* order segment first, word second.
Retained ==
    {p \in (1..Len(kept_segments)) \X (1..Len(transcript.words)) :
        FullyInside(transcript.words[p[2]], kept_segments[p[1]])}

Before(p, q) == p[1] < q[1] \/ (p[1] = q[1] /\ p[2] < q[2])

\* C16: a word is retained if and only if it is fully contained in a kept
\* segment; a retained word gets start = word.start - seg.start + offset and
\* end = word.end - seg.start + offset, offset being the sum of the durations
\* of the kept segments before that segment; other words are dropped, never
\* truncated.
C16_RetainedAndShifted ==
    Mapped =>
        /\ Len(mapped_words) = Cardinality(Retained)
        /\ \A p \in Retained :
              LET k == Cardinality({q \in Retained : Before(q, p)}) + 1
                  w == transcript.words[p[2]]
                  seg == kept_segments[p[1]]
              IN  /\ mapped_words[k].original_start = w.start
                  /\ mapped_words[k].original_end = w.end
                  /\ mapped_words[k].start
                        = w.start - seg.start_sec + OffsetBefore(p[1])
                  /\ mapped_words[k].end
                        = w.end - seg.start_sec + OffsetBefore(p[1])
                  /\ mapped_words[k].end - mapped_words[k].start
                        = w.end - w.start

\* C16's case: a word lying partly inside a kept segment is dropped and a
\* word of a later kept segment is shifted by the segments before it.
C16_Witness ==
    /\ Mapped
    /\ Len(kept_segments) = 2
    /\ Len(mapped_words) = 1
    /\ mapped_words[1].start # mapped_words[1].original_start
    /\ mapped_words[1].start > 0
    /\ \E i \in 1..Len(transcript.words) :
          /\ transcript.words[i].start < kept_segments[1].end_sec
          /\ transcript.words[i].end > kept_segments[1].end_sec
          /\ transcript.words[i].start >= kept_segments[1].start_sec

\* The kept segments are intervals in chronological order that do not overlap.
ChronologicalKeeps ==
    /\ \A j \in 1..Len(kept_segments) :
          kept_segments[j].start_sec <= kept_segments[j].end_sec
    /\ \A j \in 1..(Len(kept_segments) - 1) :
          kept_segments[j].end_sec <= kept_segments[j + 1].start_sec

\* C17: for an ascending, non-overlapping word stream and chronological,
\* non-overlapping kept segments the output keeps the words in original
\* order, is non-decreasing in new start and is non-overlapping.
C17_SortedNonOverlapping ==
    (Mapped /\ ChronologicalKeeps) =>
        \A k \in 1..(Len(mapped_words) - 1) :
            /\ mapped_words[k].original_end <= mapped_words[k + 1].original_start
            /\ mapped_words[k].start <= mapped_words[k + 1].start
            /\ mapped_words[k].end <= mapped_words[k + 1].start

\* C17's case: two kept segments with a removed stretch between them, each
\* retaining a word.
C17_Witness ==
    /\ Mapped /\ ChronologicalKeeps
    /\ Len(kept_segments) = 2
    /\ kept_segments[1].end_sec < kept_segments[2].start_sec
    /\ Len(mapped_words) = 2
    /\ mapped_words[2].start = mapped_words[1].end

TrimmedLength == SumDurations(kept_segments)

LastMapped == mapped_words[Len(mapped_words)]

\* C18 as claimed: with the keep segments generate_keep_segments derives from
\* cuts on the same word stream, the final remapped word's end equals the sum
\* of the durations of the kept segments whenever the output is non-empty.
C18_LastEndIsTrimmedLength ==
    (Mapped /\ mapped_words # <<>>) => LastMapped.end = TrimmedLength

\* C18 as amended: the final remapped word's end is at most the sum of the
\* durations of the kept segments, and equal exactly when that word lies in
\* the last kept segment and ends where the segment ends.
C18_LastEndWithinTrimmedLength ==
    (Mapped /\ mapped_words # <<>>) =>
        /\ LastMapped.end <= TrimmedLength
        /\ LastMapped.end = TrimmedLength
             <=> /\ LastMapped.original_end
                       = kept_segments[Len(kept_segments)].end_sec
                 /\ LastMapped.original_start
                       >= kept_segments[Len(kept_segments)].start_sec

\* C18's case: a cut between two kept segments, the last word ending with
\* the video, so that the final remapped end is the trimmed length.
C18_Witness ==
    /\ Mapped
    /\ merged_cuts # <<>>
    /\ Len(kept_segments) = 2
    /\ Len(mapped_words) >= 2
    /\ LastMapped.end = TrimmedLength
    /\ LastMapped.end < transcript.duration_sec

-----------------------------------------------------------------------------
(* Claims about group_words_into_phrases *)

PhrasesReturned == pc_phrase = "returned"

RECURSIVE ConcatWords(_)
ConcatWords(ps) ==
    IF ps = <<>> THEN <<>> ELSE Head(ps).words \o ConcatWords(Tail(ps))

\* C19: concatenating the words of the returned phrases, in order,
\* reproduces the input word list exactly, and no phrase is empty.
C19_PhraseExhaustive ==
    PhrasesReturned =>
        /\ ConcatWords(phrases) = mapped_words
        /\ \A k \in 1..Len(phrases) : phrases[k].words # <<>>

\* C19's case: a phrase closed by a break and a last phrase emitted when the
\* input ends, together holding three words.
C19_Witness ==
    /\ PhrasesReturned
    /\ Len(mapped_words) = 3
    /\ Len(phrases) = 2
    /\ Len(phrases[1].words) = 2

\* C20: every returned phrase starts at the startMs of its first word, ends
\* at the endMs of its last word, and its words are a contiguous run of the
\* input.
C20_PhraseSpansItsWords ==
    PhrasesReturned =>
        \A k \in 1..Len(phrases) :
            LET ws == phrases[k].words
            IN  /\ ws # <<>>
                /\ phrases[k].startMs = ws[1].startMs
                /\ phrases[k].endMs = ws[Len(ws)].endMs
                /\ \E from \in 1..Len(mapped_words) :
                      /\ from + Len(ws) - 1 <= Len(mapped_words)
                      /\ ws = SubSeq(mapped_words, from, from + Len(ws) - 1)

\* C20's case: a second phrase of two words that starts after a pause.
C20_Witness ==
    /\ PhrasesReturned
    /\ Len(phrases) = 2
    /\ Len(phrases[2].words) = 2
    /\ phrases[2].startMs > phrases[1].endMs
    /\ phrases[2].endMs = mapped_words[Len(mapped_words)].endMs

\* The word that follows the k-th phrase, and the pause before it.
WordAfter(k) == phrases[k + 1].words[1]

PauseAfter(k) == WordAfter(k).startMs - phrases[k].endMs

\* A threshold other than the pause closes the k-th phrase before the next
\* word.
OtherBreak(k) ==
    LET ws == phrases[k].words
    IN  \/ Len(ws) >= max_words_per_phrase
        \/ Len(JoinTexts(ws) \o <<" ">> \o WordAfter(k).text)
              > max_chars_per_phrase
        \/ WordAfter(k).endMs - phrases[k].startMs > max_duration_ms
        \/ EndsWithPunct(Strip(ws[Len(ws)].text))

\* The limits on words, characters and duration of every phrase.
WithinLimits ==
    \A k \in 1..Len(phrases) :
        /\ max_words_per_phrase >= 1
              => Len(phrases[k].words) <= max_words_per_phrase
        /\ Len(phrases[k].words) > 1 =>
              /\ Len(phrases[k].text) <= max_chars_per_phrase
              /\ phrases[k].endMs - phrases[k].startMs <= max_duration_ms

\* C21 as claimed: every phrase has at most max_words_per_phrase words and,
\* with more than one word, at most max_chars_per_phrase characters and
\* max_duration_ms; a pause breaks the phrase exactly when it exceeds
\* min_pause_for_break_ms, so a pause equal to it does not.
C21_ThresholdsPauseExceeds ==
    PhrasesReturned =>
        /\ \A k \in 1..Len(phrases) :
              Len(phrases[k].words) <= max_words_per_phrase
        /\ WithinLimits
        /\ \A k \in 1..(Len(phrases) - 1) :
              ~OtherBreak(k) => PauseAfter(k) > min_pause_for_break_ms
        /\ \A k \in 1..Len(phrases) :
              \A j \in 1..(Len(phrases[k].words) - 1) :
                  phrases[k].words[j + 1].startMs - phrases[k].words[j].endMs
                      <= min_pause_for_break_ms

\* C21 as amended: with max_words_per_phrase >= 1 every phrase has at most
\* that many words; with more than one word it has at most
\* max_chars_per_phrase characters and max_duration_ms; a pause breaks the
\* phrase exactly when it is at least min_pause_for_break_ms, so a pause
\* equal to it does.
C21_ThresholdsPauseAtLeast ==
    PhrasesReturned =>
        /\ WithinLimits
        /\ \A k \in 1..(Len(phrases) - 1) :
              ~OtherBreak(k) => PauseAfter(k) >= min_pause_for_break_ms
        /\ \A k \in 1..Len(phrases) :
              \A j \in 1..(Len(phrases[k].words) - 1) :
                  phrases[k].words[j + 1].startMs - phrases[k].words[j].endMs
                      < min_pause_for_break_ms

\* C21's case: a phrase closed by nothing but a pause equal to the minimum,
\* and a phrase of several words.
C21_Witness ==
    /\ PhrasesReturned
    /\ Len(phrases) = 2
    /\ ~OtherBreak(1)
    /\ PauseAfter(1) = min_pause_for_break_ms
    /\ Len(phrases[1].words) = 2

\* C22: a word whose text ends in sentence-final punctuation is the last word
\* of its phrase, whatever the other thresholds.
C22_PunctuationEndsPhrase ==
    PhrasesReturned =>
        \A k \in 1..Len(phrases) :
            \A j \in 1..(Len(phrases[k].words) - 1) :
                ~EndsWithPunct(phrases[k].words[j].text)

\* C22's case: under loose thresholds a word ending in a period closes its
\* phrase although the next word follows without a pause.
C22_Witness ==
    /\ PhrasesReturned
    /\ Len(phrases) = 2
    /\ EndsWithPunct(phrases[1].words[Len(phrases[1].words)].text)
    /\ Len(phrases[1].words) = 2
    /\ PauseAfter(1) = 0
    /\ Len(phrases[1].words) < max_words_per_phrase
    /\ Len(phrases[1].text) + 1 + Len(WordAfter(1).text) <= max_chars_per_phrase
    /\ WordAfter(1).endMs - phrases[1].startMs <= max_duration_ms

Thresholds ==
    [max_words_per_phrase |-> max_words_per_phrase,
     max_chars_per_phrase |-> max_chars_per_phrase,
     max_duration_ms |-> max_duration_ms,
     min_pause_for_break_ms |-> min_pause_for_break_ms]

\* C23: the grouping leaves its input word list unchanged, and a call made
\* after another call on the same words returns what the call returns on its
\* own; the phrases of the first call are not changed by the second.
C23_PureFunction ==
    /\ [][mapped_words' = mapped_words]_vars
    /\ [][pc_caption = "vertical" => phrases_horizontal' = phrases_horizontal]_vars
    /\ [](PhrasesReturned =>
            phrases = group_words_into_phrases(mapped_words, Thresholds))
    /\ [](pc_caption = "done" =>
            phrases_vertical = group_words_into_phrases(mapped_words, Thresholds))

\* C23's case: both layouts are done on three words and differ.
C23_Witness ==
    /\ pc_caption = "done"
    /\ Len(mapped_words) = 3
    /\ phrases_horizontal # phrases_vertical
    /\ Len(phrases_horizontal) > Len(phrases_vertical)
    /\ Len(phrases_vertical) > 1

-----------------------------------------------------------------------------
(* Claims about process_chunks.main *)

Merged == pc_main = "merged"

\* The sum of the durations of the chunks before the n-th.
RECURSIVE DurationBefore(_)
DurationBefore(n) ==
    IF n <= 1 THEN 0 ELSE DurationBefore(n - 1) + chunk_files[n - 1].duration

\* What the sequential mode produces: the workers' results in task order.
SequentialResults == [n \in 1..Len(chunk_files) |-> process_single_chunk(n)]

\* The chunk numbers of a list of items, without repetition of neighbours.
ChunkOrder(items) == [k \in 1..Len(items) |-> items[k].chunk]

Ascending(nums) == \A k \in 1..(Len(nums) - 1) : nums[k] <= nums[k + 1]

\* C24: the merge comes after all workers have finished; the merged
\* segments, words and chunks are in ascending chunk number and identical to
\* what the sequential mode produces; each chunk's global_offset is the sum
\* of the durations of the lower-numbered chunks, failed chunks included.
C24_MergeInChunkOrder ==
    Merged =>
        /\ futures = {}
        /\ Len(results) = Len(chunk_files)
        /\ index = IndexOf(SequentialResults, chunk_files)
        /\ Ascending(ChunkOrder(index.segments))
        /\ Ascending(ChunkOrder(index.words))
        /\ \A k \in 1..Len(index.chunks) :
              /\ index.chunks[k].chunk_num = k - 1
              /\ index.chunks[k].global_offset = DurationBefore(k)
        /\ \A k \in 1..Len(index.words) :
              index.words[k].start = DurationBefore(index.words[k].chunk + 1)

\* C24's case: the parallel mode, the last chunk completing first and a
\* chunk in the middle failing.
C24_Witness ==
    /\ Merged
    /\ ~sequential
    /\ Len(chunk_files) = 3
    /\ ~chunk_files[2].transcribes
    /\ completed = <<2, 0, 1>>
    /\ Len(index.words) = 2
    /\ index.chunks[3].global_offset > 0

-----------------------------------------------------------------------------
(* Claims about create_lowres_clips *)

\* What the sequential mode writes: the results in the order of the files.
SequentialConversions ==
    [n \in 1..Len(clip_files) |-> convert_clip_lowres(clip_files[n])]

\* C29: for every completion order the clips written to lowres_index.json
\* are in the sorted order of the input files and each has the clip_id the
\* sequential mode gives it.
C29_LowresIndexInFileOrder ==
    pc_lowres = "written" =>
        /\ \A k \in 1..(Len(output_data.clips) - 1) :
              output_data.clips[k].original_path
                  < output_data.clips[k + 1].original_path
        /\ output_data.clips = OutputData(SequentialConversions).clips

-----------------------------------------------------------------------------
(* Claims about threshold validation and termination *)

\* C25: an unsatisfiable configuration is rejected before any processing:
\* with min_chunk_sec > max_chunk_sec find_split_points returns no split
\* point, and with min_keep_duration greater than the total duration
\* generate_keep_segments returns no keep list.
C25_UnsatisfiableRejected ==
    /\ min_chunk_sec > max_chunk_sec =>
          /\ split_points = <<>>
          /\ pc_chunk \notin {"loop", "split"}
    /\ (Kept /\ min_keep_duration > transcript.duration_sec) => keeps = <<>>

FindSplitPointsDone == pc_chunk \in {"returned", "split", "error"}

\* C28: with min_chunk_sec > 0 and target_chunk_sec > 0 find_split_points
\* terminates for every duration and every candidate lists: each loop
\* iteration strictly increases current_pos, current_pos stays below
\* total_duration + max(target, window) and the function returns.
C28_SplitPointsTerminates ==
    /\ [][(pc_chunk = "loop" /\ pc_chunk' = "loop") =>
            current_pos' > current_pos]_vars
    /\ [](pc_chunk = "loop" => iter.n <= total_duration)
    /\ <>FindSplitPointsDone

\* C28's case: no candidate lies in any window, the loop has run more than
\* once on forced splits and the function has returned.
C28_Witness ==
    /\ pc_chunk = "returned"
    /\ iter.n >= 2
    /\ iter.from = "target"
    /\ \A j \in 1..Len(silence_gaps) :
          ~InWindow(silence_gaps[j].t, iter.search_start, iter.search_end)
    /\ \A k \in 2..Len(split_points) :
          split_points[k] = split_points[k - 1] + target_chunk_sec

-----------------------------------------------------------------------------
(* Claims about find_sentence_boundaries *)

PauseBefore(w) ==
    IF "pause_before_ms" \in DOMAIN w THEN w.pause_before_ms ELSE 0

\* The text, trailing whitespace aside, ends with a sentence ender.
SentenceFinal(w) ==
    \E k \in 1..Len(w.text) :
        /\ w.text[k] \in sentence_enders
        /\ \A j \in (k + 1)..Len(w.text) : w.text[j] \in whitespace

StartsSentence(i) ==
    \/ i = 0
    \/ PauseBefore(words[i + 1]) >= min_pause_ms
    \/ /\ SentenceFinal(words[i])
       /\ PauseBefore(words[i + 1]) >= punctuation_pause_ms

-----------------------------------------------------------------------------
(* Claims about the lookahead of group_into_clips *)

\* Cumulative duration of the clip that starts at word start when it ends
\* at word i.
DurationUpTo(start, i) == At(words, i).end - At(words, start).start

\* The words after the clip's first at which the target has been reached.
Reached(start) ==
    {i \in (start + 1)..(Len(words) - 1) :
        DurationUpTo(start, i) >= target_duration_sec}

TargetToken(start) ==
    CHOOSE i \in Reached(start) : \A j \in Reached(start) : i <= j

\* The clip's duration reaches the target within the maximum at a word that
\* is not the last and is not followed at once by a boundary.
LookaheadCase(start) ==
    /\ Reached(start) # {}
    /\ DurationUpTo(start, TargetToken(start)) <= max_duration_sec
    /\ TargetToken(start) + 1 < Len(words)
    /\ ~InList(TargetToken(start) + 1, boundaries)

\* The boundaries within the next 5 words that fit into the maximum.
ReachableBoundaries(start) ==
    {b \in 0..Len(words) :
        /\ InList(b, boundaries)
        /\ b > TargetToken(start) /\ b <= TargetToken(start) + 5
        /\ DurationUpTo(start, b - 1) <= max_duration_sec}

NearestReachable(start) ==
    CHOOSE b \in ReachableBoundaries(start) :
        \A c \in ReachableBoundaries(start) : b <= c

LastWithinMax(start) ==
    CHOOSE i \in start..(Len(words) - 1) :
        /\ i = start \/ DurationUpTo(start, i) <= max_duration_sec
        /\ \A j \in (i + 1)..(Len(words) - 1) :
              DurationUpTo(start, j) > max_duration_sec

\* C27 as stated: in the lookahead case the clip ends before the nearest
\* boundary within 5 words that fits into max_duration_sec, and with no
\* such boundary it ends at the last word within max_duration_sec.
C27_LookaheadOrMax ==
    \A k \in 1..Len(clips) :
        LET start == clips[k].start_idx
        IN  LookaheadCase(start) =>
                clips[k].end_idx =
                    IF ReachableBoundaries(start) # {}
                    THEN NearestReachable(start) - 1
                    ELSE LastWithinMax(start)

\* C27 amended: in the lookahead case the clip ends before the nearest
\* boundary within 5 words that fits into max_duration_sec, and with no
\* such boundary it ends at the word at which the target was reached.
C27_LookaheadOrTarget ==
    \A k \in 1..Len(clips) :
        LET start == clips[k].start_idx
        IN  LookaheadCase(start) =>
                /\ clips[k].end_idx =
                       IF ReachableBoundaries(start) # {}
                       THEN NearestReachable(start) - 1
                       ELSE TargetToken(start)
                /\ clips[k].end_sec = At(words, clips[k].end_idx).end

\* C27's case: the first clip reaches the target at its second word, the
\* only later boundary lies 6 words ahead and would fit into
\* max_duration_sec, and the clip ends at the second word; a later clip ends
\* before a boundary found by the lookahead.
C27_Witness ==
    /\ pc_clip = "returned"
    /\ LookaheadCase(0)
    /\ TargetToken(0) = 1
    /\ boundaries = <<0, 7>>
    /\ DurationUpTo(0, 6) <= max_duration_sec
    /\ clips[1].end_idx = 1
    /\ \E k \in 2..Len(clips) :
          /\ LookaheadCase(clips[k].start_idx)
          /\ ReachableBoundaries(clips[k].start_idx) # {}
          /\ clips[k].end_idx > TargetToken(clips[k].start_idx)

-----------------------------------------------------------------------------
(* Claims about repeated words in the remapped stream *)

\* The output words that come from an input word with these times.
CopiesOf(w) ==
    {k \in 1..Len(mapped_words) :
        /\ mapped_words[k].original_start = w.start
        /\ mapped_words[k].original_end = w.end}

SameTimes(w) ==
    {i \in 1..Len(transcript.words) :
        /\ transcript.words[i].start = w.start
        /\ transcript.words[i].end = w.end}

\* C30: for chronological, pairwise non-overlapping kept segments (touching
\* ones included) and an ascending word stream (zero-length words included)
\* every input word appears at most once in the output of
\* map_timestamps_to_trimmed, so the output has no more words than the input.
C30_EachWordAtMostOnce ==
    (Mapped /\ ChronologicalKeeps) =>
        /\ \A i \in 1..Len(transcript.words) :
              Cardinality(CopiesOf(transcript.words[i]))
                  <= Cardinality(SameTimes(transcript.words[i]))
        /\ Len(mapped_words) <= Len(transcript.words)

=============================================================================
